---- MODULE Spec2Model ----
(***************************************************************************)
(* A model of the scenario navigator of the Conflict Training Simulator:   *)
(* GameEngine (src/js/game-engine.js) over StorageManager                  *)
(* (src/unnamed/part_000) and the browser's localStorage.                  *)
(*                                                                         *)
(* JavaScript values are modelled as follows.  undefined and null are the  *)
(* strings Undefined and Null.  A property that holds an object or an      *)
(* array, or is absent, is an option: None (absent) or Some(v).  A JSON    *)
(* object keyed by names (scenario.nodes, strategiesUsed) is a function    *)
(* whose DOMAIN is the set of its own keys.  The timestamp of a history    *)
(* entry is left out: no operation reads it.                               *)
(***************************************************************************)
EXTENDS Integers, Sequences, FiniteSets, TLC

\* ------------------------------------------------------------------ bounds

\* The longest choice history the model explores (makeChoice is disabled there).
MaxHistory == 3
\* The most scenario fetches in flight at once.
MaxPending == 1
\* The most loadScenario calls with a fetch on its way when loads overlap.
MaxOverlap == 2
\* The highest value a strategy counter is let to reach.
MaxStrategyCount == 1
\* The most choices of one node in the documents the validation harness draws.
MaxChoices == 2

\* -------------------------------------------------------- JavaScript values

Undefined == "<undefined>"
Null == "<null>"

None == <<>>
Some(x) == <<x>>
IsSome(o) == Len(o) > 0
Get(o) == o[1]

\* ToBoolean of a string-valued, null or undefined property.
Truthy(v) == v \notin {Undefined, Null, ""}

\* Names every object literal and every JSON.parse'd object inherits from
\* Object.prototype: obj[name] is a truthy built-in although name is no own key.
ObjectPrototypeKeys ==
  {"constructor", "toString", "valueOf", "hasOwnProperty", "__proto__"}

\* What the navigator can read of an inherited built-in: it has neither
\* a type nor choices.
ProtoMember == [type |-> Undefined, choices |-> None]

\* nodes[key] for an object `nodes` that maps node ids to nodes: the own
\* property, else the inherited one, else undefined (None).
Prop(nodes, key) ==
  IF key \in DOMAIN nodes THEN Some(nodes[key])
  ELSE IF key \in ObjectPrototypeKeys THEN Some(ProtoMember)
  ELSE None

\* array.find(c => c.id === id): the index of the first match, 0 when none.
FindIndex(choices, id) ==
  IF \E i \in 1..Len(choices) : choices[i].id = id
  THEN CHOOSE i \in 1..Len(choices) :
         /\ choices[i].id = id
         /\ \A j \in 1..(i - 1) : choices[j].id # id
  ELSE 0

\* array.includes(x)
Includes(arr, x) == \E i \in 1..Len(arr) : arr[i] = x

\* ------------------------------------------------------- scenario documents

Choice(id, text, strategy, nextNode, requirements) ==
  [id |-> id, text |-> text, strategy |-> strategy, nextNode |-> nextNode,
   requirements |-> requirements]

Requirements(previousChoices, forbiddenChoices) ==
  Some([previousChoices |-> previousChoices,
        forbiddenChoices |-> forbiddenChoices])

Node(type, choices) == [type |-> type, choices |-> choices]

Scenario(id, nodes) ==
  [id |-> id, metadata |-> Some([title |-> id]), nodes |-> Some(nodes)]

\* The files of the content server and the index entries that name them.
File1 == "scenarios/scenario-001.json"
File2 == "scenarios/scenario-002.json"

\* scenario-001 as first published: start -A-> x, x -A-> y (a resolution),
\* x -B-> start; on start B is forbidden after A and C requires A.  Choice
\* ids are unique within a node only.
Doc1 ==
  Scenario("scenario-001",
    [start |-> Node("scene", Some(<<
        Choice("A", "Ask to talk", "collaborating", "x", None),
        Choice("B", "Reply in anger", "competing", "y",
               Requirements(None, Some(<<"A">>))),
        Choice("C", "Follow up", Undefined, "y",
               Requirements(Some(<<"A">>), None)) >>)),
     x |-> Node("scene", Some(<<
        Choice("A", "Agree on a plan", Undefined, "y", None),
        Choice("B", "Start over", "assertive", "start", None) >>)),
     y |-> Node("resolution", None)])

\* scenario-001 after a content update: node x is gone and A leads to y.
Doc1b ==
  Scenario("scenario-001",
    [start |-> Node("scene", Some(<<
        Choice("A", "Ask to talk", "collaborating", "y", None) >>)),
     y |-> Node("resolution", Some(<<>>))])

\* scenario-002: A names an inherited property, B has no nextNode.
Doc2 ==
  Scenario("scenario-002",
    [start |-> Node("scene", Some(<<
        Choice("A", "Wait", "assertive", "constructor", None),
        Choice("B", "Leave", Undefined, Undefined, None) >>))])

\* scenario-002 with a choice that names a node the document lacks.
Doc2bad ==
  Scenario("scenario-002",
    [start |-> Node("scene", Some(<<
        Choice("A", "Wait", "assertive", "missing", None) >>))])

\* What a fetch of each file can answer with, at one time or another: the
\* content server is not part of the program and its files can be replaced.
PublishedContent ==
  [f \in {File1, File2} |->
     IF f = File1 THEN {Doc1, Doc1b} ELSE {Doc2, Doc2bad}]

ServerIndex ==
  <<[id |-> "scenario-001", unlocked |-> TRUE, file |-> File1],
    [id |-> "scenario-002", unlocked |-> TRUE, file |-> File2]>>

\* The scenario ids a caller passes to loadScenario.
ScenarioIds == {"scenario-001", "scenario-002", "scenario-404"}

\* The choice ids a caller passes to makeChoice.
ChoiceIds == {"A", "B", "C", "Z"}

\* ---------------------------------------------------------- StorageManager

KnownStrategies ==
  {"collaborating", "compromising", "competing", "accommodating", "avoiding",
   "active_listening"}

\* StorageManager.defaultState as the constructor builds it.
InitialDefaultState ==
  [userProgress |->
     [currentScenario |-> Null, currentNode |-> Null, choiceHistory |-> <<>>],
   completedScenarios |-> <<>>,
   userPreferences |->
     [viewMode |-> "visual-novel", autoSave |-> TRUE, soundEnabled |-> TRUE],
   statistics |->
     [totalChoicesMade |-> 0, scenariosCompleted |-> 0,
      strategiesUsed |-> [s \in KnownStrategies |-> 0]]]

\* The storage an operation works on: the item under storageKey (None when
\* nothing is stored, else the parsed JSON text) and StorageManager's
\* defaultState object, which the operations below can change.
Store(item, defaults) == [item |-> item, defaults |-> defaults]

\* JSON.stringify leaves out a property whose value is undefined, so the key
\* is absent from the parsed text.  Of the keys of userProgress only the
\* string-valued ones can be undefined.
StringifyProgress(up) ==
  LET kept == {k \in DOMAIN up :
                 ~(k \in {"currentScenario", "currentNode"} /\ up[k] = Undefined)}
  IN [k \in kept |-> up[k]]

\* JSON.parse(JSON.stringify(data))
JSONRoundTrip(data) ==
  [data EXCEPT !.userProgress = StringifyProgress(data.userProgress)]

\* { ...a, ...b } for objects a and b
Spread(a, b) ==
  [k \in DOMAIN a \cup DOMAIN b |-> IF k \in DOMAIN b THEN b[k] ELSE a[k]]

\* mergeWithDefaults(loaded), for a text this program wrote: it has
\* userProgress, completedScenarios, userPreferences and statistics (with
\* strategiesUsed), so each of the four is rebuilt as a new object.
mergeWithDefaults(loaded, defaults) ==
  [userProgress |-> Spread(defaults.userProgress, loaded.userProgress),
   completedScenarios |-> loaded.completedScenarios,
   userPreferences |-> Spread(defaults.userPreferences, loaded.userPreferences),
   statistics |->
     [Spread(defaults.statistics, loaded.statistics) EXCEPT
        !.strategiesUsed = Spread(defaults.statistics.strategiesUsed,
                                  loaded.statistics.strategiesUsed)]]

\* loadData(): the merged stored data, or { ...this.defaultState } when nothing
\* is stored.  The copy is shallow: its statistics and completedScenarios ARE
\* the defaultState's objects (shared), its userProgress is only ever replaced.
loadData(st) ==
  IF IsSome(st.item)
  THEN [data |-> mergeWithDefaults(Get(st.item), st.defaults), shared |-> FALSE]
  ELSE [data |-> st.defaults, shared |-> TRUE]

\* saveData(data) after the caller changed the loaded data to `data`:
\* setItem either stores the text or throws (storage disabled, quota used up),
\* which saveData catches.  Changes made through shared objects reach defaultState
\* whether or not the write succeeds.
saveData(st, loaded, data, writeOk) ==
  Store(IF writeOk THEN Some(JSONRoundTrip(data)) ELSE st.item,
        IF loaded.shared
        THEN [st.defaults EXCEPT !.statistics = data.statistics,
                                 !.completedScenarios = data.completedScenarios]
        ELSE st.defaults)

\* saveProgress with a fault: totalChoicesMade is left as it was.
saveProgressKeepsTotal(st, scenarioId, nodeId, choiceHistory, writeOk) ==
  LET loaded == loadData(st)
      data == [loaded.data EXCEPT
                 !.userProgress = [currentScenario |-> scenarioId,
                                   currentNode |-> nodeId,
                                   choiceHistory |-> choiceHistory]]
  IN saveData(st, loaded, data, writeOk)

\* saveProgress(scenarioId, nodeId, choiceHistory)
saveProgress(st, scenarioId, nodeId, choiceHistory, writeOk) ==
  LET loaded == loadData(st)
      data == [loaded.data EXCEPT
                 !.userProgress = [currentScenario |-> scenarioId,
                                   currentNode |-> nodeId,
                                   choiceHistory |-> choiceHistory],
                 !.statistics.totalChoicesMade = Len(choiceHistory)]
  IN saveData(st, loaded, data, writeOk)

\* loadProgress(): the stored progress, or None for null.
loadProgress(st) ==
  LET progress == loadData(st).data.userProgress
  IN IF Truthy(progress.currentScenario) /\ Truthy(progress.currentNode)
     THEN Some(progress)
     ELSE None

\* markScenarioComplete with a fault: the id is recorded whether or not it is
\* there already.
markScenarioCompleteEveryTime(st, scenarioId, writeOk) ==
  LET loaded == loadData(st)
      data == [loaded.data EXCEPT
                 !.completedScenarios = Append(@, scenarioId),
                 !.statistics.scenariosCompleted = @ + 1,
                 !.userProgress = [currentScenario |-> Null,
                                   currentNode |-> Null,
                                   choiceHistory |-> <<>>]]
  IN saveData(st, loaded, data, writeOk)

\* markScenarioComplete with a fault: the current progress is not cleared.
markScenarioCompleteKeepsProgress(st, scenarioId, writeOk) ==
  LET loaded == loadData(st)
      first == ~Includes(loaded.data.completedScenarios, scenarioId)
      data == [loaded.data EXCEPT
                 !.completedScenarios =
                    IF first THEN Append(@, scenarioId) ELSE @,
                 !.statistics.scenariosCompleted = IF first THEN @ + 1 ELSE @]
  IN saveData(st, loaded, data, writeOk)

\* markScenarioComplete(scenarioId)
markScenarioComplete(st, scenarioId, writeOk) ==
  LET loaded == loadData(st)
      first == ~Includes(loaded.data.completedScenarios, scenarioId)
      data == [loaded.data EXCEPT
                 !.completedScenarios =
                    IF first THEN Append(@, scenarioId) ELSE @,
                 !.statistics.scenariosCompleted = IF first THEN @ + 1 ELSE @,
                 !.userProgress = [currentScenario |-> Null,
                                   currentNode |-> Null,
                                   choiceHistory |-> <<>>]]
  IN saveData(st, loaded, data, writeOk)

\* clearCurrentProgress with a fault: the completed scenarios are cleared too.
clearCurrentProgressForgetsCompleted(st, writeOk) ==
  LET loaded == loadData(st)
      data == [loaded.data EXCEPT
                 !.completedScenarios = <<>>,
                 !.userProgress = [currentScenario |-> Null,
                                   currentNode |-> Null,
                                   choiceHistory |-> <<>>]]
  IN saveData(st, loaded, data, writeOk)

\* updatePreferences(preferences): { ...data.userPreferences, ...preferences }
updatePreferences(st, preferences, writeOk) ==
  LET loaded == loadData(st)
      data == [loaded.data EXCEPT
                 !.userPreferences = Spread(@, preferences)]
  IN saveData(st, loaded, data, writeOk)

\* clearAllData(): removeItem takes the stored text away, or throws, which is
\* caught; defaultState is not touched.
clearAllData(st, writeOk) ==
  Store(IF writeOk THEN None ELSE st.item, st.defaults)

\* clearCurrentProgress()
clearCurrentProgress(st, writeOk) ==
  LET loaded == loadData(st)
      data == [loaded.data EXCEPT
                 !.userProgress = [currentScenario |-> Null,
                                   currentNode |-> Null,
                                   choiceHistory |-> <<>>]]
  IN saveData(st, loaded, data, writeOk)

\* recordStrategyUsage with a fault: the counter is raised by two.
recordStrategyUsageTwice(st, strategy, writeOk) ==
  LET loaded == loadData(st)
  IN IF strategy \in DOMAIN loaded.data.statistics.strategiesUsed
     THEN saveData(st, loaded,
                   [loaded.data EXCEPT !.statistics.strategiesUsed[strategy] = @ + 2],
                   writeOk)
     ELSE st

\* recordStrategyUsage(strategy): nothing is written for an unknown strategy.
recordStrategyUsage(st, strategy, writeOk) ==
  LET loaded == loadData(st)
  IN IF strategy \in DOMAIN loaded.data.statistics.strategiesUsed
     THEN saveData(st, loaded,
                   [loaded.data EXCEPT !.statistics.strategiesUsed[strategy] = @ + 1],
                   writeOk)
     ELSE st

\* A text handed to importData is modelled by what JSON.parse makes of it:
\* Some(value), or None when JSON.parse throws.
NotJSON == None

\* exportData(): JSON.stringify(this.loadData(), null, 2)
exportData(st) == Some(JSONRoundTrip(loadData(st).data))

\* importData with a fault: the defaults are stored in place of the merged data.
importDataStoresDefaults(st, jsonString, writeOk) ==
  IF ~IsSome(jsonString)
  THEN [store |-> st, success |-> FALSE]
  ELSE [store |-> Store(IF writeOk THEN Some(JSONRoundTrip(InitialDefaultState))
                                   ELSE st.item,
                        st.defaults),
        success |-> writeOk]

\* importData(jsonString): the text is parsed, merged with the defaults and
\* saved; the result is saveData's, or false when JSON.parse throws.  The
\* merged data of a text with all four parts shares no object with defaultState.
importData(st, jsonString, writeOk) ==
  IF ~IsSome(jsonString)
  THEN [store |-> st, success |-> FALSE]
  ELSE LET mergedData == mergeWithDefaults(Get(jsonString), st.defaults)
       IN [store |-> Store(IF writeOk THEN Some(JSONRoundTrip(mergedData))
                                      ELSE st.item,
                           st.defaults),
           success |-> writeOk]

\* -------------------------------------------------------------- GameEngine

VARIABLES
  currentScenario,   \* GameEngine.currentScenario: None (null) or Some(document)
  currentNode,       \* GameEngine.currentNode
  choiceHistory,     \* GameEngine.choiceHistory
  scenarioIndex,     \* GameEngine.scenarioIndex: None (null) or Some(entries)
  isLoading,         \* GameEngine.isLoading
  pending,           \* loadScenario calls waiting for their fetch
  localStorageItem,  \* localStorage[storageKey]: None or Some(parsed text)
  defaultState,      \* StorageManager.defaultState
  storageWritable,   \* whether localStorage.setItem stores (TRUE) or throws
  content,           \* the content server: file -> documents it can answer with
  saveStatus,        \* UIManager: the text of the save-status element
  held,              \* the array a caller got from getChoiceHistory(): None or Some
  app,               \* ConflictTrainingApp and the screens of the page
  last               \* the last call: operation, argument, error thrown, value returned

vars ==
  <<currentScenario, currentNode, choiceHistory, scenarioIndex, isLoading,
    pending, localStorageItem, defaultState, storageWritable, content,
    saveStatus, held, app, last>>

engineVars == <<currentScenario, currentNode, choiceHistory>>
storageVars == <<localStorageItem, defaultState, storageWritable>>

NoError == "none"
ErrNoScenario == "No scenario loaded or current node"
ErrNoChoices == "Current node has no choices"
ErrChoiceNotFound == "Choice not found"
ErrNotInIndex == "Scenario not found in index"
ErrFetch == "Failed to load scenario"
ErrInvalid == "Invalid scenario structure"
ErrTypeError == "TypeError"

Call(op, arg, error, returned) ==
  [op |-> op, arg |-> arg, error |-> error, returned |-> returned]

\* The fallback index with a fault: it lists a second scenario.
FallbackIndexOfTwo ==
  <<[id |-> "scenario-001", unlocked |-> TRUE, file |-> File1],
    [id |-> "scenario-002", unlocked |-> FALSE, file |-> File2]>>

\* The index loadScenarioIndex builds when the fetch of the index fails.
FallbackIndex ==
  <<[id |-> "scenario-001", unlocked |-> TRUE, file |-> File1]>>

validateScenario(scenario) ==
  IF ~Truthy(scenario.id) \/ ~IsSome(scenario.metadata) \/ ~IsSome(scenario.nodes)
  THEN FALSE
  ELSE LET nodes == Get(scenario.nodes) IN
       IF ~IsSome(Prop(nodes, "start"))
       THEN FALSE
       ELSE \A nodeId \in DOMAIN nodes :
              IsSome(nodes[nodeId].choices) =>
                \A i \in 1..Len(Get(nodes[nodeId].choices)) :
                  LET choice == Get(nodes[nodeId].choices)[i] IN
                  ~(Truthy(choice.nextNode) /\ ~IsSome(Prop(nodes, choice.nextNode)))

\* getCurrentNode() in an engine state: None for null or undefined.
getCurrentNode(scenario, node) ==
  IF ~IsSome(scenario) \/ ~Truthy(node)
  THEN None
  ELSE Prop(Get(Get(scenario).nodes), node)

\* ChoiceFilter with a fault: the forbiddenChoices check is left out.
ChoiceFilterIgnoresForbidden(choice, history) ==
  LET previousChoiceIds == [i \in 1..Len(history) |-> history[i].choiceId] IN
  IF IsSome(choice.requirements)
  THEN LET requirements == Get(choice.requirements) IN
       IF /\ IsSome(requirements.previousChoices)
          /\ ~(\A j \in 1..Len(Get(requirements.previousChoices)) :
                 Includes(previousChoiceIds, Get(requirements.previousChoices)[j]))
       THEN FALSE
       ELSE TRUE
  ELSE TRUE

\* The filter callback of getAvailableChoices.
ChoiceFilter(choice, history) ==
  LET previousChoiceIds == [i \in 1..Len(history) |-> history[i].choiceId] IN
  IF IsSome(choice.requirements)
  THEN LET requirements == Get(choice.requirements) IN
       IF /\ IsSome(requirements.previousChoices)
          /\ ~(\A j \in 1..Len(Get(requirements.previousChoices)) :
                 Includes(previousChoiceIds, Get(requirements.previousChoices)[j]))
       THEN FALSE
       ELSE IF /\ IsSome(requirements.forbiddenChoices)
               /\ \E j \in 1..Len(Get(requirements.forbiddenChoices)) :
                    Includes(previousChoiceIds, Get(requirements.forbiddenChoices)[j])
       THEN FALSE
       ELSE TRUE
  ELSE TRUE

\* getAvailableChoices with a fault: a choice without a strategy tag is not
\* offered.
getAvailableChoicesTagged(scenario, node, history) ==
  LET current == getCurrentNode(scenario, node) IN
  IF ~IsSome(current) \/ ~IsSome(Get(current).choices)
  THEN <<>>
  ELSE SelectSeq(Get(Get(current).choices),
                 LAMBDA c : ChoiceFilter(c, history) /\ Truthy(c.strategy))

\* getAvailableChoices()
getAvailableChoices(scenario, node, history) ==
  LET current == getCurrentNode(scenario, node) IN
  IF ~IsSome(current) \/ ~IsSome(Get(current).choices)
  THEN <<>>
  ELSE SelectSeq(Get(Get(current).choices), LAMBDA c : ChoiceFilter(c, history))

\* isScenarioComplete with a fault: a node counts as final when it has no
\* choices array, whatever its type.
isScenarioCompleteByChoices(scenario, node) ==
  LET current == getCurrentNode(scenario, node) IN
  IsSome(current) /\ ~IsSome(Get(current).choices)

\* isScenarioComplete()
isScenarioComplete(scenario, node) ==
  LET current == getCurrentNode(scenario, node) IN
  IsSome(current) /\ Get(current).type = "resolution"

canGoBack(history) == Len(history) > 0

\* HistoryEntry with a fault: the entry names the node the choice leads to.
HistoryEntryOfTarget(nodeId, choice) ==
  [nodeId |-> choice.nextNode, choiceId |-> choice.id, choiceText |-> choice.text,
   strategy |-> choice.strategy]

\* The entry makeChoice pushes for `choice`, made on node `nodeId`.
HistoryEntry(nodeId, choice) ==
  [nodeId |-> nodeId, choiceId |-> choice.id, choiceText |-> choice.text,
   strategy |-> choice.strategy]

\* A call that throws before it changed anything.
Throws(op, arg, error) ==
  /\ last' = Call(op, arg, error, None)
  /\ UNCHANGED <<engineVars, scenarioIndex, isLoading, pending, storageVars, content>>

\* The strategy counter makeChoice would raise is still below the model's cap.
CounterBelowCap(strategy) ==
  LET used == loadData(Store(localStorageItem, defaultState)).data.statistics.strategiesUsed
  IN strategy \in DOMAIN used => used[strategy] < MaxStrategyCount

\* makeChoice with a fault: the exception of a rejected write is not caught
\* and ends the call.
makeChoiceBlockedBySave(choiceId) ==
  LET currentNodeData == getCurrentNode(currentScenario, currentNode) IN
  IF ~IsSome(currentScenario) \/ ~Truthy(currentNode)
  THEN Throws("makeChoice", choiceId, ErrNoScenario)
  ELSE IF ~IsSome(currentNodeData) \/ ~IsSome(Get(currentNodeData).choices)
  THEN Throws("makeChoice", choiceId, ErrNoChoices)
  ELSE LET choices == Get(Get(currentNodeData).choices)
           found == FindIndex(choices, choiceId)
       IN
       IF found = 0
       THEN Throws("makeChoice", choiceId, ErrChoiceNotFound)
       ELSE LET choice == choices[found]
                history1 == Append(choiceHistory, HistoryEntry(currentNode, choice))
                st0 == Store(localStorageItem, defaultState)
                st1 == IF Truthy(choice.strategy)
                       THEN recordStrategyUsage(st0, choice.strategy, storageWritable)
                       ELSE st0
                st2 == saveProgress(st1, Get(currentScenario).id, choice.nextNode,
                                    history1, storageWritable)
                st3 == IF isScenarioComplete(currentScenario, choice.nextNode)
                       THEN markScenarioComplete(st2, Get(currentScenario).id,
                                                 storageWritable)
                       ELSE st2
            IN
            /\ Len(choiceHistory) < MaxHistory
            /\ CounterBelowCap(choice.strategy)
            /\ choiceHistory' = history1
            /\ currentNode' = choice.nextNode
            /\ localStorageItem' = st3.item
            /\ defaultState' = st3.defaults
            /\ last' = IF storageWritable
                       THEN Call("makeChoice", choiceId, NoError,
                                 getCurrentNode(currentScenario, choice.nextNode))
                       ELSE Call("makeChoice", choiceId, "QuotaExceededError", None)
            /\ UNCHANGED <<currentScenario, scenarioIndex, isLoading, pending,
                           storageWritable, content>>

\* makeChoice with a fault: the progress is saved after the history entry is
\* pushed and before the engine moves to the next node.
makeChoiceSavesBeforeMove(choiceId) ==
  LET currentNodeData == getCurrentNode(currentScenario, currentNode) IN
  IF ~IsSome(currentScenario) \/ ~Truthy(currentNode)
  THEN Throws("makeChoice", choiceId, ErrNoScenario)
  ELSE IF ~IsSome(currentNodeData) \/ ~IsSome(Get(currentNodeData).choices)
  THEN Throws("makeChoice", choiceId, ErrNoChoices)
  ELSE LET choices == Get(Get(currentNodeData).choices)
           found == FindIndex(choices, choiceId)
       IN
       IF found = 0
       THEN Throws("makeChoice", choiceId, ErrChoiceNotFound)
       ELSE LET choice == choices[found]
                history1 == Append(choiceHistory, HistoryEntry(currentNode, choice))
                st0 == Store(localStorageItem, defaultState)
                st1 == IF Truthy(choice.strategy)
                       THEN recordStrategyUsage(st0, choice.strategy, storageWritable)
                       ELSE st0
                st2 == saveProgress(st1, Get(currentScenario).id, currentNode,
                                    history1, storageWritable)
                st3 == IF isScenarioComplete(currentScenario, choice.nextNode)
                       THEN markScenarioComplete(st2, Get(currentScenario).id,
                                                 storageWritable)
                       ELSE st2
            IN
            /\ Len(choiceHistory) < MaxHistory
            /\ CounterBelowCap(choice.strategy)
            /\ choiceHistory' = history1
            /\ currentNode' = choice.nextNode
            /\ localStorageItem' = st3.item
            /\ defaultState' = st3.defaults
            /\ last' = Call("makeChoice", choiceId, NoError,
                            getCurrentNode(currentScenario, choice.nextNode))
            /\ UNCHANGED <<currentScenario, scenarioIndex, isLoading, pending,
                           storageWritable, content>>

\* makeChoice(choiceId)
makeChoice(choiceId) ==
  LET currentNodeData == getCurrentNode(currentScenario, currentNode) IN
  IF ~IsSome(currentScenario) \/ ~Truthy(currentNode)
  THEN Throws("makeChoice", choiceId, ErrNoScenario)
  ELSE IF ~IsSome(currentNodeData) \/ ~IsSome(Get(currentNodeData).choices)
  THEN Throws("makeChoice", choiceId, ErrNoChoices)
  ELSE LET choices == Get(Get(currentNodeData).choices)
           found == FindIndex(choices, choiceId)
       IN
       IF found = 0
       THEN Throws("makeChoice", choiceId, ErrChoiceNotFound)
       ELSE LET choice == choices[found]
                history1 == Append(choiceHistory, HistoryEntry(currentNode, choice))
                st0 == Store(localStorageItem, defaultState)
                st1 == IF Truthy(choice.strategy)
                       THEN recordStrategyUsage(st0, choice.strategy, storageWritable)
                       ELSE st0
                st2 == saveProgress(st1, Get(currentScenario).id, choice.nextNode,
                                    history1, storageWritable)
                st3 == IF isScenarioComplete(currentScenario, choice.nextNode)
                       THEN markScenarioComplete(st2, Get(currentScenario).id,
                                                 storageWritable)
                       ELSE st2
            IN
            /\ Len(choiceHistory) < MaxHistory
            /\ CounterBelowCap(choice.strategy)
            /\ choiceHistory' = history1
            /\ currentNode' = choice.nextNode
            /\ localStorageItem' = st3.item
            /\ defaultState' = st3.defaults
            /\ last' = Call("makeChoice", choiceId, NoError,
                            getCurrentNode(currentScenario, choice.nextNode))
            /\ UNCHANGED <<currentScenario, scenarioIndex, isLoading, pending,
                           storageWritable, content>>

\* goBack with a fault: a history of one entry counts as empty.
goBackOffByOne ==
  IF Len(choiceHistory) <= 1
  THEN /\ last' = Call("goBack", "", NoError, None)
       /\ UNCHANGED <<engineVars, scenarioIndex, isLoading, pending, storageVars, content>>
  ELSE LET lastChoice == choiceHistory[Len(choiceHistory)]
           history1 == SubSeq(choiceHistory, 1, Len(choiceHistory) - 1)
       IN
       /\ choiceHistory' = history1
       /\ currentNode' = lastChoice.nodeId
       /\ IF IsSome(currentScenario)
          THEN LET st == saveProgress(Store(localStorageItem, defaultState),
                                      Get(currentScenario).id, lastChoice.nodeId,
                                      history1, storageWritable)
               IN /\ localStorageItem' = st.item
                  /\ defaultState' = st.defaults
                  /\ last' = Call("goBack", "", NoError,
                                  getCurrentNode(currentScenario, lastChoice.nodeId))
          ELSE \* this.currentScenario.id throws after the pop
               /\ UNCHANGED <<localStorageItem, defaultState>>
               /\ last' = Call("goBack", "", ErrTypeError, None)
       /\ UNCHANGED <<currentScenario, scenarioIndex, isLoading, pending,
                      storageWritable, content>>

\* goBack with a fault: a finished scenario cannot be walked back.
goBackBlockedAtResolution ==
  IF Len(choiceHistory) = 0 \/ isScenarioComplete(currentScenario, currentNode)
  THEN /\ last' = Call("goBack", "", NoError, None)
       /\ UNCHANGED <<engineVars, scenarioIndex, isLoading, pending, storageVars, content>>
  ELSE LET lastChoice == choiceHistory[Len(choiceHistory)]
           history1 == SubSeq(choiceHistory, 1, Len(choiceHistory) - 1)
       IN
       /\ choiceHistory' = history1
       /\ currentNode' = lastChoice.nodeId
       /\ IF IsSome(currentScenario)
          THEN LET st == saveProgress(Store(localStorageItem, defaultState),
                                      Get(currentScenario).id, lastChoice.nodeId,
                                      history1, storageWritable)
               IN /\ localStorageItem' = st.item
                  /\ defaultState' = st.defaults
                  /\ last' = Call("goBack", "", NoError,
                                  getCurrentNode(currentScenario, lastChoice.nodeId))
          ELSE \* this.currentScenario.id throws after the pop
               /\ UNCHANGED <<localStorageItem, defaultState>>
               /\ last' = Call("goBack", "", ErrTypeError, None)
       /\ UNCHANGED <<currentScenario, scenarioIndex, isLoading, pending,
                      storageWritable, content>>

\* goBack()
goBack ==
  IF Len(choiceHistory) = 0
  THEN /\ last' = Call("goBack", "", NoError, None)
       /\ UNCHANGED <<engineVars, scenarioIndex, isLoading, pending, storageVars, content>>
  ELSE LET lastChoice == choiceHistory[Len(choiceHistory)]
           history1 == SubSeq(choiceHistory, 1, Len(choiceHistory) - 1)
       IN
       /\ choiceHistory' = history1
       /\ currentNode' = lastChoice.nodeId
       /\ IF IsSome(currentScenario)
          THEN LET st == saveProgress(Store(localStorageItem, defaultState),
                                      Get(currentScenario).id, lastChoice.nodeId,
                                      history1, storageWritable)
               IN /\ localStorageItem' = st.item
                  /\ defaultState' = st.defaults
                  /\ last' = Call("goBack", "", NoError,
                                  getCurrentNode(currentScenario, lastChoice.nodeId))
          ELSE \* this.currentScenario.id throws after the pop
               /\ UNCHANGED <<localStorageItem, defaultState>>
               /\ last' = Call("goBack", "", ErrTypeError, None)
       /\ UNCHANGED <<currentScenario, scenarioIndex, isLoading, pending,
                      storageWritable, content>>

\* restartScenario with a fault: the history is cleared in the engine but the
\* stored progress is left as it was.
restartScenarioUnsaved ==
  IF ~IsSome(currentScenario)
  THEN /\ last' = Call("restartScenario", "", NoError, None)
       /\ UNCHANGED <<engineVars, scenarioIndex, isLoading, pending, storageVars, content>>
  ELSE /\ currentNode' = "start"
       /\ choiceHistory' = <<>>
       /\ last' = Call("restartScenario", "", NoError, None)
       /\ UNCHANGED <<currentScenario, scenarioIndex, isLoading, pending,
                      storageVars, content>>

\* restartScenario()
restartScenario ==
  IF ~IsSome(currentScenario)
  THEN /\ last' = Call("restartScenario", "", NoError, None)
       /\ UNCHANGED <<engineVars, scenarioIndex, isLoading, pending, storageVars, content>>
  ELSE LET st == saveProgress(Store(localStorageItem, defaultState),
                              Get(currentScenario).id, "start", <<>>,
                              storageWritable)
       IN
       /\ currentNode' = "start"
       /\ choiceHistory' = <<>>
       /\ localStorageItem' = st.item
       /\ defaultState' = st.defaults
       /\ last' = Call("restartScenario", "", NoError, None)
       /\ UNCHANGED <<currentScenario, scenarioIndex, isLoading, pending,
                      storageWritable, content>>

\* pending without its i-th request
RemoveAt(seq, i) == SubSeq(seq, 1, i - 1) \o SubSeq(seq, i + 1, Len(seq))

\* StorageAfterReject with a fault: the stored progress is kept after a
\* resume that failed.
StorageAfterRejectKeepsProgress(op) ==
  Store(localStorageItem, defaultState)

\* How a loadScenario call that rejects leaves the storage.  A rejected
\* resumeFromProgress is caught by the application's handleSavedProgress, which
\* clears the stored progress; a rejected loadScenario changes nothing.
StorageAfterReject(op) ==
  IF op = "resumeFromProgress"
  THEN clearCurrentProgress(Store(localStorageItem, defaultState), storageWritable)
  ELSE Store(localStorageItem, defaultState)

\* loadScenario(scenarioId) up to its first await, against the index `index`.
\* `op` is the caller: loadScenario itself, or resumeFromProgress with the
\* progress it was given.  A call that rejects here has run `finally`.
BeginLoadUpTo(cap, op, index, scenarioId, savedProgress) ==
  LET found == IF IsSome(index) THEN FindIndex(Get(index), scenarioId) ELSE 0
      error == IF ~IsSome(index) THEN ErrTypeError ELSE ErrNotInIndex
  IN
  IF found = 0
  THEN /\ isLoading' = FALSE
       /\ last' = Call(op, scenarioId, error, None)
       /\ localStorageItem' = StorageAfterReject(op).item
       /\ defaultState' = StorageAfterReject(op).defaults
       /\ UNCHANGED <<engineVars, pending, storageWritable, content>>
  ELSE /\ Len(pending) < cap
       /\ pending' = Append(pending,
            [op |-> op, scenarioId |-> scenarioId,
             file |-> Get(index)[found].file,
             savedProgress |-> savedProgress])
       /\ isLoading' = TRUE
       /\ last' = Call(op, scenarioId, "pending", None)
       /\ UNCHANGED <<engineVars, storageVars, content>>

\* loadScenario up to its first await, with at most MaxPending fetches on
\* their way.
BeginLoad(op, index, scenarioId, savedProgress) ==
  BeginLoadUpTo(MaxPending, op, index, scenarioId, savedProgress)

loadScenario(scenarioId) ==
  /\ BeginLoad("loadScenario", scenarioIndex, scenarioId, None)
  /\ UNCHANGED scenarioIndex

\* resumeFromProgress: savedProgress.choiceHistory || []
SavedHistory(savedProgress) ==
  IF "choiceHistory" \in DOMAIN savedProgress
  THEN savedProgress.choiceHistory
  ELSE <<>>

\* SettleLoad with a fault: a resumed scenario starts afresh, the saved node
\* and history are dropped.
SettleLoadResumesAtStart(i, response) ==
  LET request == pending[i]
      error == IF ~IsSome(response) THEN ErrFetch
               ELSE IF ~validateScenario(Get(response)) THEN ErrInvalid
               ELSE NoError
  IN
  /\ pending' = RemoveAt(pending, i)
  /\ isLoading' = FALSE
  /\ UNCHANGED <<scenarioIndex, storageWritable, content>>
  /\ IF error # NoError
     THEN /\ last' = Call(request.op, request.scenarioId, error, None)
          /\ localStorageItem' = StorageAfterReject(request.op).item
          /\ defaultState' = StorageAfterReject(request.op).defaults
          /\ UNCHANGED engineVars
     ELSE /\ currentScenario' = response
          /\ UNCHANGED <<localStorageItem, defaultState>>
          /\ IF request.op = "loadScenario"
             THEN /\ currentNode' = "start"
                  /\ choiceHistory' = <<>>
                  /\ last' = Call(request.op, request.scenarioId, NoError, None)
             ELSE /\ currentNode' = "start"
                  /\ choiceHistory' = <<>>
                  /\ last' = Call(request.op, request.scenarioId, NoError,
                                  getCurrentNode(response, "start"))

\* SettleLoad with a fault: the fetched document becomes the current scenario
\* before it is validated.
SettleLoadAdoptsUnvalidated(i, response) ==
  LET request == pending[i]
      error == IF ~IsSome(response) THEN ErrFetch
               ELSE IF ~validateScenario(Get(response)) THEN ErrInvalid
               ELSE NoError
  IN
  /\ pending' = RemoveAt(pending, i)
  /\ isLoading' = FALSE
  /\ UNCHANGED <<scenarioIndex, storageWritable, content>>
  /\ IF error # NoError
     THEN /\ last' = Call(request.op, request.scenarioId, error, None)
          /\ localStorageItem' = StorageAfterReject(request.op).item
          /\ defaultState' = StorageAfterReject(request.op).defaults
          /\ currentScenario' = IF IsSome(response) THEN response ELSE currentScenario
          /\ UNCHANGED <<currentNode, choiceHistory>>
     ELSE /\ currentScenario' = response
          /\ UNCHANGED <<localStorageItem, defaultState>>
          /\ IF request.op = "loadScenario"
             THEN /\ currentNode' = "start"
                  /\ choiceHistory' = <<>>
                  /\ last' = Call(request.op, request.scenarioId, NoError, None)
             ELSE /\ currentNode' = Get(request.savedProgress).currentNode
                  /\ choiceHistory' = SavedHistory(Get(request.savedProgress))
                  /\ last' = Call(request.op, request.scenarioId, NoError,
                                  getCurrentNode(response,
                                    Get(request.savedProgress).currentNode))

\* SettleLoad with a fault: a resume keeps the graph the engine already has and
\* installs the saved node and history on it.
SettleLoadKeepsGraph(i, response) ==
  LET request == pending[i]
      error == IF ~IsSome(response) THEN ErrFetch
               ELSE IF ~validateScenario(Get(response)) THEN ErrInvalid
               ELSE NoError
  IN
  /\ pending' = RemoveAt(pending, i)
  /\ isLoading' = FALSE
  /\ UNCHANGED <<scenarioIndex, storageWritable, content>>
  /\ IF error # NoError
     THEN /\ last' = Call(request.op, request.scenarioId, error, None)
          /\ localStorageItem' = StorageAfterReject(request.op).item
          /\ defaultState' = StorageAfterReject(request.op).defaults
          /\ UNCHANGED engineVars
     ELSE /\ currentScenario' = IF request.op = "resumeFromProgress" /\ IsSome(currentScenario)
                                THEN currentScenario
                                ELSE response
          /\ UNCHANGED <<localStorageItem, defaultState>>
          /\ IF request.op = "loadScenario"
             THEN /\ currentNode' = "start"
                  /\ choiceHistory' = <<>>
                  /\ last' = Call(request.op, request.scenarioId, NoError, None)
             ELSE /\ currentNode' = Get(request.savedProgress).currentNode
                  /\ choiceHistory' = SavedHistory(Get(request.savedProgress))
                  /\ last' = Call(request.op, request.scenarioId, NoError,
                                  getCurrentNode(response,
                                    Get(request.savedProgress).currentNode))

\* The rest of loadScenario, from the answer to its fetch: None when the fetch
\* failed, the response was not ok or its body was no JSON, else the document.
\* The continuation of a resumeFromProgress call runs in the same turn.
SettleLoad(i, response) ==
  LET request == pending[i]
      error == IF ~IsSome(response) THEN ErrFetch
               ELSE IF ~validateScenario(Get(response)) THEN ErrInvalid
               ELSE NoError
  IN
  /\ pending' = RemoveAt(pending, i)
  /\ isLoading' = FALSE
  /\ UNCHANGED <<scenarioIndex, storageWritable, content>>
  /\ IF error # NoError
     THEN /\ last' = Call(request.op, request.scenarioId, error, None)
          /\ localStorageItem' = StorageAfterReject(request.op).item
          /\ defaultState' = StorageAfterReject(request.op).defaults
          /\ UNCHANGED engineVars
     ELSE /\ currentScenario' = response
          /\ UNCHANGED <<localStorageItem, defaultState>>
          /\ IF request.op = "loadScenario"
             THEN /\ currentNode' = "start"
                  /\ choiceHistory' = <<>>
                  /\ last' = Call(request.op, request.scenarioId, NoError, None)
             ELSE /\ currentNode' = Get(request.savedProgress).currentNode
                  /\ choiceHistory' = SavedHistory(Get(request.savedProgress))
                  /\ last' = Call(request.op, request.scenarioId, NoError,
                                  getCurrentNode(response,
                                    Get(request.savedProgress).currentNode))

\* GameEngine.initialize() and what the application does with its answer, once
\* per page: loadScenarioIndex() takes the fetched index, or the built-in one
\* when the fetch fails; when loadProgress() finds saved progress, the
\* application calls resumeFromProgress with it.
initializeWith(fetched) ==
  LET index == Some(fetched)
      savedProgress == loadProgress(Store(localStorageItem, defaultState))
  IN
  /\ ~IsSome(scenarioIndex)
  /\ scenarioIndex' = index
  /\ IF IsSome(savedProgress)
     THEN BeginLoad("resumeFromProgress", index,
                    Get(savedProgress).currentScenario, savedProgress)
     ELSE /\ last' = Call("initialize", "", NoError, None)
          /\ UNCHANGED <<engineVars, isLoading, pending, storageVars, content>>

\* initialize() against the published index, or with the fetch failing.
initialize(fetchOk) ==
  initializeWith(IF fetchOk THEN ServerIndex ELSE FallbackIndex)

\* getAvailableScenarios with a fault: completed scenarios are not looked up.
getAvailableScenariosUnlockedOnly(index, st) ==
  IF ~IsSome(index)
  THEN <<>>
  ELSE SelectSeq(Get(index), LAMBDA scenario : scenario.unlocked)

\* isScenarioCompleted(scenarioId)
isScenarioCompleted(st, scenarioId) ==
  Includes(loadData(st).data.completedScenarios, scenarioId)

\* getAvailableScenarios(): the index entries that are unlocked or completed;
\* [] without an index.
getAvailableScenarios(index, st) ==
  IF ~IsSome(index)
  THEN <<>>
  ELSE SelectSeq(Get(index),
                 LAMBDA scenario :
                   scenario.unlocked \/ isScenarioCompleted(st, scenario.id))

\* ------------------------------------------------------- GameEngine queries

\* getProgress with a fault: the current node is not counted.
getProgressWithoutCurrentNode(scenario, node, history) ==
  IF ~IsSome(scenario)
  THEN None
  ELSE LET totalNodes == Cardinality(DOMAIN Get(Get(scenario).nodes))
           currentProgress == Len(history)
       IN Some([currentNode |-> node,
                choicesMade |-> Len(history),
                progressPercent |->
                  IF currentProgress >= totalNodes
                  THEN [num |-> 100, den |-> 1]
                  ELSE [num |-> currentProgress * 100, den |-> totalNodes],
                canGoBack |-> canGoBack(history),
                isComplete |-> isScenarioComplete(scenario, node)])

\* getProgress(): null without a scenario.  progressPercent is
\* Math.min((choices made + 1) / number of nodes * 100, 100), kept here as
\* the fraction num/den.
getProgress(scenario, node, history) ==
  IF ~IsSome(scenario)
  THEN None
  ELSE LET totalNodes == Cardinality(DOMAIN Get(Get(scenario).nodes))
           currentProgress == Len(history) + 1
       IN Some([currentNode |-> node,
                choicesMade |-> Len(history),
                progressPercent |->
                  IF currentProgress >= totalNodes
                  THEN [num |-> 100, den |-> 1]
                  ELSE [num |-> currentProgress * 100, den |-> totalNodes],
                canGoBack |-> canGoBack(history),
                isComplete |-> isScenarioComplete(scenario, node)])

\* getChoiceHistory with a fault: the engine hands out its own array.
getChoiceHistoryByReference(history) ==
  [entries |-> history, isEngineArray |-> TRUE]

\* getChoiceHistory(): [...this.choiceHistory], a new array of the same entries.
getChoiceHistory(history) ==
  [entries |-> history, isEngineArray |-> FALSE]

QueryNames ==
  {"getCurrentNode", "getAvailableChoices", "getProgress", "isScenarioComplete",
   "canGoBack"}

\* What the query `name` returns in the current state.
QueryResult(name) ==
  CASE name = "getCurrentNode" -> getCurrentNode(currentScenario, currentNode)
    [] name = "getAvailableChoices" ->
         Some(getAvailableChoices(currentScenario, currentNode, choiceHistory))
    [] name = "getProgress" -> getProgress(currentScenario, currentNode, choiceHistory)
    [] name = "isScenarioComplete" ->
         Some(isScenarioComplete(currentScenario, currentNode))
    [] name = "canGoBack" -> Some(canGoBack(choiceHistory))

\* A call of one of the queries: none of them assigns a field or calls the
\* storage.
Query(name) ==
  /\ last' = Call(name, "", NoError, QueryResult(name))
  /\ UNCHANGED <<engineVars, scenarioIndex, isLoading, pending, storageVars,
                 content, saveStatus, held, app>>

\* A call of getChoiceHistory() by a caller that holds no array of an earlier
\* call: it keeps the array returned.
GetChoiceHistory ==
  /\ ~IsSome(held)
  /\ held' = Some(getChoiceHistory(choiceHistory))
  /\ UNCHANGED app
  /\ last' = Call("getChoiceHistory", "", NoError, Some(choiceHistory))
  /\ UNCHANGED <<engineVars, scenarioIndex, isLoading, pending, storageVars,
                 content, saveStatus>>

\* The caller alters the array it got (pop()) and lets go of it; the call
\* record shows the array after the pop.  The engine's history changes with
\* it only if the array is the engine's own.
AlterReturnedHistory ==
  /\ IsSome(held)
  /\ Len(Get(held).entries) > 0
  /\ LET popped == SubSeq(Get(held).entries, 1, Len(Get(held).entries) - 1) IN
     /\ held' = None
     /\ UNCHANGED app
     /\ choiceHistory' = IF Get(held).isEngineArray THEN popped ELSE choiceHistory
     /\ last' = Call("alter returned history", "", NoError, Some(popped))
  /\ UNCHANGED <<currentScenario, currentNode, scenarioIndex, isLoading, pending,
                 storageVars, content, saveStatus>>

\* ---------------------------------------------------------------- UIManager

\* The screens of the page: the elements that are shown or hidden.
Screens == {"loading", "welcome", "scenario", "error"}

\* ConflictTrainingApp after its constructor ran initialize() up to the first
\* await: showInitialLoading() hid the welcome screen and showed the loading
\* screen, isInitialized is false, waitForComponents has not polled yet and
\* no scenario was started.
InitialApp ==
  [visible |-> {"loading"},
   isInitialized |-> FALSE,
   elapsed |-> 0,
   waitForComponents |-> "pending",
   started |-> None]

\* showLoading(), showWelcomeScreen(), showError(message), hideWelcomeScreen()
\* and showScenarioDisplay() on the set of screens that are shown.
showLoading(visible) == (visible \cup {"loading"}) \ {"welcome", "scenario", "error"}
showWelcomeScreen(visible) == (visible \ {"loading", "scenario", "error"}) \cup {"welcome"}
showError(visible) == (visible \cup {"error"}) \ {"loading", "welcome", "scenario"}
hideWelcomeScreen(visible) == visible \ {"welcome"}
showScenarioDisplay(visible) == visible \cup {"scenario"}

\* The ids of the choices getAvailableChoices() returns, in their order.
RECURSIVE IdsInOrder(_)
IdsInOrder(choices) ==
  IF choices = <<>> THEN <<>>
  ELSE <<Head(choices).id>> \o IdsInOrder(Tail(choices))

\* renderCurrentNode(): without a current node the error screen is shown and
\* the scenario display is left as it was; else the display is emptied and
\* drawn again, with a button for every available choice (ChoiceButtonsInOrder).
renderCurrentNode(a, scenario, node, history) ==
  IF ~IsSome(getCurrentNode(scenario, node))
  THEN [a EXCEPT !.visible = showError(@)]
  ELSE a

\* The two texts showSaveStatus gives the save-status element: "Saved" with a
\* check mark, and two seconds later "Auto-save" again.
SavedText == "Saved"
AutoSaveText == "Auto-save"

\* UIManager.handleChoice(choiceId): makeChoice, and when it returned, the
\* node is rendered and showSaveStatus() shows SavedText; when it threw, the
\* error screen is shown and the save status stays.
handleChoice(choiceId) ==
  /\ makeChoice(choiceId)
  /\ saveStatus' = IF last'.error = NoError THEN SavedText ELSE saveStatus
  /\ app' = IF last'.error = NoError
            THEN renderCurrentNode(app, currentScenario', currentNode', choiceHistory')
            ELSE [app EXCEPT !.visible = showError(@)]
  /\ UNCHANGED held

\* The timer showSaveStatus() set two seconds before.
SaveStatusTimeout ==
  /\ saveStatus = SavedText
  /\ saveStatus' = AutoSaveText
  /\ last' = Call("showSaveStatus timer", "", NoError, None)
  /\ UNCHANGED <<engineVars, scenarioIndex, isLoading, pending, storageVars,
                 content, held, app>>

\* document.querySelectorAll('.choice-button'): the buttons renderChoices drew
\* for the current node, in their order, whether or not the display is shown.
ChoiceButtonsInOrder ==
  IdsInOrder(getAvailableChoices(currentScenario, currentNode, choiceHistory))

\* The ids of the choice buttons renderChoices draws for the current node.
ChoiceButtons ==
  LET available == getAvailableChoices(currentScenario, currentNode, choiceHistory)
  IN {available[i].id : i \in 1..Len(available)}

\* goBackToChoice with a fault: one step too many.
StepsBackOneMore(length, targetIndex) == length - targetIndex + 1

\* goBackToChoice: stepsBack = history.length - targetIndex
StepsBack(length, targetIndex) == length - targetIndex

\* The for loop of goBackToChoice from its i-th round on: while i < stepsBack
\* and canGoBack(), goBack() pops the last entry, moves to its node and saves
\* the progress.  `at` is the engine's node and history and the storage;
\* without a scenario goBack() throws after the pop.
RECURSIVE GoBackLoop(_, _, _)
GoBackLoop(i, stepsBack, at) ==
  IF i >= stepsBack \/ ~canGoBack(at.choiceHistory) \/ at.error # NoError
  THEN at
  ELSE LET lastChoice == at.choiceHistory[Len(at.choiceHistory)]
           history1 == SubSeq(at.choiceHistory, 1, Len(at.choiceHistory) - 1)
       IN GoBackLoop(i + 1, stepsBack,
            IF IsSome(currentScenario)
            THEN [currentNode |-> lastChoice.nodeId,
                  choiceHistory |-> history1,
                  store |-> saveProgress(at.store, Get(currentScenario).id,
                                         lastChoice.nodeId, history1, storageWritable),
                  error |-> NoError]
            ELSE [currentNode |-> lastChoice.nodeId,
                  choiceHistory |-> history1,
                  store |-> at.store,
                  error |-> ErrTypeError])

\* UIManager.goBackToChoice(targetIndex); the call record shows the number of
\* steps it announces.
goBackToChoice(targetIndex) ==
  LET stepsBack == StepsBack(Len(choiceHistory), targetIndex)
      end == GoBackLoop(0, stepsBack,
                        [currentNode |-> currentNode,
                         choiceHistory |-> choiceHistory,
                         store |-> Store(localStorageItem, defaultState),
                         error |-> NoError])
  IN
  /\ currentNode' = end.currentNode
  /\ choiceHistory' = end.choiceHistory
  /\ localStorageItem' = end.store.item
  /\ defaultState' = end.store.defaults
  /\ last' = Call("goBackToChoice", targetIndex, end.error,
                  IF end.error = NoError THEN Some(stepsBack) ELSE None)
  /\ app' = IF end.error = NoError
            THEN renderCurrentNode(app, currentScenario, end.currentNode,
                                   end.choiceHistory)
            ELSE app
  /\ UNCHANGED <<currentScenario, scenarioIndex, isLoading, pending,
                 storageWritable, content, saveStatus, held>>

\* The indexes goBackToChoice is called with: those of the breadcrumbs, and
\* one below and two above them.
TargetIndexes == -1 .. MaxHistory + 1

\* The page is loaded anew: the constructors run again, the fetches of the old
\* page are gone, localStorage stays.
Reload ==
  /\ currentScenario' = None
  /\ currentNode' = "start"
  /\ choiceHistory' = <<>>
  /\ scenarioIndex' = None
  /\ isLoading' = FALSE
  /\ pending' = <<>>
  /\ defaultState' = InitialDefaultState
  /\ saveStatus' = AutoSaveText
  /\ held' = None
  /\ app' = InitialApp
  /\ last' = Call("constructor", "", NoError, None)
  /\ UNCHANGED <<localStorageItem, storageWritable, content>>

\* ----------------------------------------------------------- specifications

Init ==
  /\ currentScenario = None
  /\ currentNode = "start"
  /\ choiceHistory = <<>>
  /\ scenarioIndex = None
  /\ isLoading = FALSE
  /\ pending = <<>>
  /\ localStorageItem = None
  /\ defaultState = InitialDefaultState
  /\ storageWritable \in BOOLEAN
  /\ content = PublishedContent
  /\ saveStatus = AutoSaveText
  /\ held = None
  /\ app = InitialApp
  /\ last = Call("constructor", "", NoError, None)

MakeChoice == (\E c \in ChoiceIds : makeChoice(c)) /\ UNCHANGED <<saveStatus, held, app>>
GoBack == goBack /\ UNCHANGED <<saveStatus, held, app>>
RestartScenario == restartScenario /\ UNCHANGED <<saveStatus, held, app>>
Initialize == (\E fetchOk \in BOOLEAN : initialize(fetchOk)) /\ UNCHANGED <<saveStatus, held, app>>
LoadScenario == (\E id \in ScenarioIds : loadScenario(id)) /\ UNCHANGED <<saveStatus, held, app>>
Settle ==
  /\ \E i \in 1..Len(pending) :
       \E response \in {None} \cup {Some(d) : d \in content[pending[i].file]} :
         SettleLoad(i, response)
  /\ UNCHANGED <<saveStatus, held, app>>
\* A click on one of the choice buttons of the rendered node.
HandleChoice == \E c \in ChoiceButtons : handleChoice(c)
GoBackToChoice == \E targetIndex \in TargetIndexes : goBackToChoice(targetIndex)

Next ==
  \/ MakeChoice
  \/ GoBack
  \/ RestartScenario
  \/ Initialize
  \/ LoadScenario
  \/ Settle
  \/ Reload

Spec == Init /\ [][Next]_vars

\* The engine under the user interface: the clicks on choice buttons and the
\* timer of the save status.
NextUI ==
  \/ Next
  \/ HandleChoice
  \/ SaveStatusTimeout
  \/ GoBackToChoice

SpecUI == Init /\ [][NextUI]_vars

\* The engine with a caller of its query interface.
CallQuery == \E name \in QueryNames : Query(name)

NextQuery ==
  \/ Initialize
  \/ LoadScenario
  \/ Settle
  \/ MakeChoice
  \/ GoBack
  \/ RestartScenario
  \/ CallQuery
  \/ GetChoiceHistory
  \/ AlterReturnedHistory

\* The storage takes the writes: the queries make none.
InitQuery == Init /\ storageWritable

SpecQuery == InitQuery /\ [][NextQuery]_vars

\* The view modes toggleViewMode passes to updatePreferences.
ViewModes == {"visual-novel", "text-adventure"}

\* A call of StorageManager.updatePreferences, as toggleViewMode makes it.
UpdatePreferences ==
  \E viewMode \in ViewModes :
    LET st == updatePreferences(Store(localStorageItem, defaultState),
                                [viewMode |-> viewMode], storageWritable)
    IN /\ localStorageItem' = st.item
       /\ defaultState' = st.defaults
       /\ last' = Call("updatePreferences", viewMode, NoError, None)
       /\ UNCHANGED <<engineVars, scenarioIndex, isLoading, pending,
                      storageWritable, content, saveStatus, held, app>>

\* A call of StorageManager.clearCurrentProgress.
ClearCurrentProgress ==
  LET st == clearCurrentProgress(Store(localStorageItem, defaultState), storageWritable)
  IN /\ localStorageItem' = st.item
     /\ defaultState' = st.defaults
     /\ last' = Call("clearCurrentProgress", "", NoError, None)
     /\ UNCHANGED <<engineVars, scenarioIndex, isLoading, pending,
                    storageWritable, content, saveStatus, held, app>>

\* A call of StorageManager.saveProgress by a caller other than the engine,
\* with a progress of no choices at node "x".
SaveProgress ==
  LET st == saveProgress(Store(localStorageItem, defaultState),
                         "scenario-001", "x", <<>>, storageWritable)
  IN /\ localStorageItem' = st.item
     /\ defaultState' = st.defaults
     /\ last' = Call("saveProgress", "x", NoError, None)
     /\ UNCHANGED <<engineVars, scenarioIndex, isLoading, pending,
                    storageWritable, content, saveStatus, held, app>>

\* ConflictResolutionApp.reset(), confirmed by the user: clearAllData(), then
\* the page is loaded anew.
Reset ==
  /\ localStorageItem' =
       clearAllData(Store(localStorageItem, defaultState), storageWritable).item
  /\ currentScenario' = None
  /\ currentNode' = "start"
  /\ choiceHistory' = <<>>
  /\ scenarioIndex' = None
  /\ isLoading' = FALSE
  /\ pending' = <<>>
  /\ defaultState' = InitialDefaultState
  /\ saveStatus' = AutoSaveText
  /\ held' = None
  /\ app' = InitialApp
  /\ last' = Call("reset", "", NoError, None)
  /\ UNCHANGED <<storageWritable, content>>

\* The engine with callers of the StorageManager's other operations.
NextStorage ==
  \/ Next
  \/ UpdatePreferences
  \/ ClearCurrentProgress
  \/ SaveProgress
  \/ Reset

SpecStorage == Init /\ [][NextStorage]_vars

\* A published index in which the first scenario is locked.
LockedIndex ==
  <<[id |-> "scenario-001", unlocked |-> FALSE, file |-> File1],
    [id |-> "scenario-002", unlocked |-> TRUE, file |-> File2]>>

\* initialize() against either published index, or with the fetch failing.
InitializeScenarios ==
  /\ \E index \in {ServerIndex, LockedIndex, FallbackIndex} : initializeWith(index)
  /\ UNCHANGED <<saveStatus, held, app>>

\* A call of getAvailableScenarios(), as renderScenarioList makes it.
GetAvailableScenarios ==
  /\ last' = Call("getAvailableScenarios", "", NoError,
                  Some(getAvailableScenarios(scenarioIndex,
                                             Store(localStorageItem, defaultState))))
  /\ UNCHANGED <<engineVars, scenarioIndex, isLoading, pending, storageVars,
                 content, saveStatus, held, app>>

\* The engine with a scenario list that is asked for.
NextScenarios ==
  \/ InitializeScenarios
  \/ LoadScenario
  \/ Settle
  \/ MakeChoice
  \/ GoBack
  \/ RestartScenario
  \/ Reload
  \/ GetAvailableScenarios

SpecScenarios == Init /\ [][NextScenarios]_vars

\* waitForComponents: maxWaitTime and checkInterval, in milliseconds.
maxWaitTime == 5000
checkInterval == 100

\* showInitializationError(error): hideLoading(), and the error screen is shown.
showInitializationError(visible) == (visible \ {"loading"}) \cup {"error"}

\* checkComponents with a fault: the time is up only after maxWaitTime is
\* passed.
checkComponentsOneMore(present) ==
  /\ app.waitForComponents = "pending"
  /\ app' = IF present
            THEN [app EXCEPT !.waitForComponents = "resolved", !.elapsed = 0]
            ELSE IF app.elapsed + checkInterval > maxWaitTime
            THEN [app EXCEPT !.elapsed = @ + checkInterval,
                             !.waitForComponents = "rejected",
                             !.visible = showInitializationError(@)]
            ELSE [app EXCEPT !.elapsed = @ + checkInterval]
  /\ last' = Call("checkComponents", "", NoError, Some(present))
  /\ UNCHANGED <<engineVars, scenarioIndex, isLoading, pending, storageVars,
                 content, saveStatus, held>>

\* One run of checkComponents in waitForComponents: when the three components
\* exist the promise resolves; else elapsed grows by checkInterval and the
\* promise rejects once maxWaitTime is reached, which initialize() catches
\* with showInitializationError; else the next run is set up.  elapsed is a
\* local variable of waitForComponents: it is gone once the promise resolved.
checkComponents(present) ==
  /\ app.waitForComponents = "pending"
  /\ app' = IF present
            THEN [app EXCEPT !.waitForComponents = "resolved", !.elapsed = 0]
            ELSE IF app.elapsed + checkInterval >= maxWaitTime
            THEN [app EXCEPT !.elapsed = @ + checkInterval,
                             !.waitForComponents = "rejected",
                             !.visible = showInitializationError(@)]
            ELSE [app EXCEPT !.elapsed = @ + checkInterval]
  /\ last' = Call("checkComponents", "", NoError, Some(present))
  /\ UNCHANGED <<engineVars, scenarioIndex, isLoading, pending, storageVars,
                 content, saveStatus, held>>

CheckComponents == \E present \in BOOLEAN : checkComponents(present)

\* ConflictTrainingApp.initialize() from the answer of waitForComponents on:
\* gameEngine.initialize(); without saved progress, or when the resume is
\* rejected at once, the welcome screen is shown and isInitialized becomes
\* true; else handleSavedProgress waits for the resume.
AppInitialize ==
  /\ app.waitForComponents = "resolved"
  /\ \E fetchOk \in BOOLEAN : initialize(fetchOk)
  /\ app' = IF last'.error # "pending"
            THEN [app EXCEPT !.visible = showWelcomeScreen(@),
                             !.isInitialized = TRUE]
            ELSE app
  /\ UNCHANGED <<saveStatus, held>>

\* A click on a scenario card of the welcome screen: startScenario(scenarioId)
\* up to its await.
StartScenario ==
  /\ "welcome" \in app.visible
  /\ LET listed == getAvailableScenarios(scenarioIndex,
                                          Store(localStorageItem, defaultState))
     IN \E k \in 1..Len(listed) :
          /\ BeginLoadUpTo(MaxOverlap, "loadScenario", scenarioIndex,
                           listed[k].id, None)
          /\ app' = [app EXCEPT !.visible = showLoading(@),
                                !.started = Some(listed[k].id)]
  /\ UNCHANGED <<scenarioIndex, saveStatus, held>>

\* The answer to a fetch, and the rest of the call that waited for it:
\* startScenario shows the scenario display and renders the node, or shows
\* the error screen; handleSavedProgress does the same for a resume, or falls
\* back to the welcome screen, and initialize() then sets isInitialized.
SettleApp ==
  /\ \E i \in 1..Len(pending) :
       \E response \in {None} \cup {Some(d) : d \in content[pending[i].file]} :
         /\ SettleLoad(i, response)
         /\ LET shown == renderCurrentNode(
                           [app EXCEPT !.visible =
                                         showScenarioDisplay(hideWelcomeScreen(@))],
                           currentScenario', currentNode', choiceHistory')
            IN app' =
                 IF pending[i].op = "resumeFromProgress"
                 THEN [(IF last'.error = NoError
                        THEN shown
                        ELSE [app EXCEPT !.visible = showWelcomeScreen(@)])
                         EXCEPT !.isInitialized = TRUE]
                 ELSE IF last'.error = NoError
                      THEN shown
                      ELSE [app EXCEPT !.visible = showError(@)]
  /\ UNCHANGED <<saveStatus, held>>

\* A click on a choice button of the scenario display.
ClickChoice ==
  /\ "scenario" \in app.visible
  /\ \E c \in ChoiceButtons : handleChoice(c)

\* handleGoBack(): nothing without history; goBack() and renderCurrentNode(),
\* an exception of goBack() is caught.
handleGoBack ==
  /\ canGoBack(choiceHistory)
  /\ goBack
  /\ app' = IF last'.error = NoError
            THEN renderCurrentNode(app, currentScenario', currentNode', choiceHistory')
            ELSE app
  /\ UNCHANGED <<saveStatus, held>>

\* A key that handleKeyboardNavigation does nothing for.
KeyIgnored(key) ==
  /\ last' = Call("keydown", key, NoError, None)
  /\ UNCHANGED <<engineVars, scenarioIndex, isLoading, pending, storageVars,
                 content, saveStatus, held, app>>

\* handleKeyboardNavigation(event): Escape shows the main menu, Backspace
\* goes back when canGoBack(), the keys "1".."5" click the choice button of
\* that number if the document has one.
handleKeyboardNavigation(key) ==
  IF key = "Escape"
  THEN /\ app' = [app EXCEPT !.visible = showWelcomeScreen(@)]
       /\ last' = Call("keydown", key, NoError, None)
       /\ UNCHANGED <<engineVars, scenarioIndex, isLoading, pending, storageVars,
                      content, saveStatus, held>>
  ELSE IF key = "Backspace"
  THEN IF canGoBack(choiceHistory) THEN handleGoBack ELSE KeyIgnored(key)
  ELSE LET index == CHOOSE n \in 1..5 : ToString(n) = key IN
       IF index <= Len(ChoiceButtonsInOrder)
       THEN handleChoice(ChoiceButtonsInOrder[index])
       ELSE KeyIgnored(key)

\* The keys pressed: Escape, Backspace and the first three number keys.
Keys == {"Escape", "Backspace", "1", "2", "3"}

\* A key pressed once the UIManager exists.
KeyDown ==
  /\ app.waitForComponents = "resolved"
  /\ \E key \in Keys : handleKeyboardNavigation(key)

\* The application as the user meets it: the page starts, scenarios are
\* started from the welcome screen, choices are clicked, keys are pressed.
NextApp ==
  \/ CheckComponents
  \/ AppInitialize
  \/ StartScenario
  \/ SettleApp
  \/ ClickChoice
  \/ KeyDown
  \/ Reload

SpecApp == Init /\ [][NextApp]_vars

\* The text an earlier page stored: "A" was chosen at the start of
\* "scenario-001".
StoredByEarlierPage ==
  saveProgress(
    recordStrategyUsage(Store(None, InitialDefaultState), "collaborating", TRUE),
    "scenario-001", "x",
    <<HistoryEntry("start", Choice("A", "Ask to talk", "collaborating", "x", None))>>,
    TRUE).item

\* The page starts with nothing stored, or with the text of an earlier page.
InitStart ==
  /\ currentScenario = None
  /\ currentNode = "start"
  /\ choiceHistory = <<>>
  /\ scenarioIndex = None
  /\ isLoading = FALSE
  /\ pending = <<>>
  /\ localStorageItem \in {None, StoredByEarlierPage}
  /\ defaultState = InitialDefaultState
  /\ storageWritable \in BOOLEAN
  /\ IsSome(localStorageItem) => storageWritable
  /\ content = PublishedContent
  /\ saveStatus = AutoSaveText
  /\ held = None
  /\ app = InitialApp
  /\ last = Call("constructor", "", NoError, None)

\* The start of the application alone: the polls of waitForComponents, the
\* engine's initialize() and the answer to the fetch of a resume.
NextStart ==
  \/ CheckComponents
  \/ AppInitialize
  \/ SettleApp

\* The timer of setTimeout runs out, initialize() goes on once the promise of
\* waitForComponents is resolved, and every fetch is answered or fails.
SpecStart ==
  /\ InitStart
  /\ [][NextStart]_vars
  /\ WF_vars(CheckComponents)
  /\ WF_vars(AppInitialize)
  /\ WF_vars(SettleApp)

\* The documents the validation harness draws: every combination of the
\* top-level fields, of the nodes "start" and "x", and of up to MaxChoices
\* choices per node whose nextNode is absent, empty, a node that may exist, a
\* node that does not, or an inherited property name.
ValidationNextNodes == {Undefined, "", "start", "x", "zz", "constructor"}

ValidationChoiceIds == <<"A", "B", "C", "D">>

ValidationChoices ==
  {[i \in 1..Len(l) |-> Choice(ValidationChoiceIds[i], "text", Undefined, l[i], None)] :
     l \in UNION {[1..n -> ValidationNextNodes] : n \in 0..MaxChoices}}

ValidationNodes ==
  {Node("scene", None)} \cup {Node("scene", Some(c)) : c \in ValidationChoices}

ValidationDocs ==
  {[id |-> id, metadata |-> metadata, nodes |-> nodes] :
     id \in {Undefined, "scenario-001"},
     metadata \in {None, Some([title |-> "t"])},
     nodes \in {None} \cup
       {Some(f) : f \in UNION {[S -> ValidationNodes] : S \in SUBSET {"start", "x"}}}}

\* The server answers the fetch of File1 with one drawn document.
InitValidate ==
  /\ currentScenario = None
  /\ currentNode = "start"
  /\ choiceHistory = <<>>
  /\ scenarioIndex = None
  /\ isLoading = FALSE
  /\ pending = <<>>
  /\ localStorageItem = None
  /\ defaultState = InitialDefaultState
  /\ storageWritable = TRUE
  /\ content \in {[f \in {File1, File2} |-> IF f = File1 THEN {d} ELSE {}] :
                    d \in ValidationDocs}
  /\ saveStatus = AutoSaveText
  /\ held = None
  /\ app = InitialApp
  /\ last = Call("constructor", "", NoError, None)

NextValidate ==
  \/ Initialize
  \/ LoadScenario
  \/ Settle

SpecValidate == InitValidate /\ [][NextValidate]_vars

\* A call of StorageManager.importData, with the text exportData() returns at
\* that moment ("exported") or with a text that is not JSON ("invalid").
ImportData ==
  \E kind \in {"exported", "invalid"} :
    LET st == Store(localStorageItem, defaultState)
        jsonString == IF kind = "exported" THEN exportData(st) ELSE NotJSON
        end == importData(st, jsonString, storageWritable)
    IN /\ localStorageItem' = end.store.item
       /\ defaultState' = end.store.defaults
       /\ last' = Call("importData", kind, NoError, Some(end.success))
       /\ UNCHANGED <<engineVars, scenarioIndex, isLoading, pending,
                      storageWritable, content, saveStatus, held, app>>

\* The engine with a caller that backs the stored data up and restores it.
NextBackup ==
  \/ Next
  \/ ImportData

SpecBackup == Init /\ [][NextBackup]_vars

\* ------------------------------------------------------------------ claims

\* The own node ids of a loaded document.
NodeIds(scenario) == DOMAIN Get(Get(scenario).nodes)

\* C1.  What the specification asks of a document for its load to succeed:
\* the fields id, metadata and nodes, a node "start", and every nextNode that
\* is present names a node of the document.
WellFormedDocument(d) ==
  /\ d.id # Undefined
  /\ IsSome(d.metadata)
  /\ IsSome(d.nodes)
  /\ "start" \in DOMAIN Get(d.nodes)
  /\ \A n \in DOMAIN Get(d.nodes) :
       IsSome(Get(d.nodes)[n].choices) =>
         \A i \in 1..Len(Get(Get(d.nodes)[n].choices)) :
           LET nextNode == Get(Get(d.nodes)[n].choices)[i].nextNode IN
           nextNode # Undefined => nextNode \in DOMAIN Get(d.nodes)

\* C1: a load whose fetch answered with a document succeeds if and only if
\* the document is well formed; otherwise it fails as an invalid scenario.
C1_LoadSucceedsIffWellFormed ==
  (last.op = "loadScenario" /\ last.error \in {NoError, ErrInvalid}) =>
    \A d \in content[File1] : (last.error = NoError <=> WellFormedDocument(d))

\* A step in which a loadScenario call ended: rejected before its fetch, or
\* settled by the answer to it.
LoadEnded == last'.op = "loadScenario" /\ last'.error # "pending"

\* C2: a load is all-or-nothing.  A successful loadScenario makes a document
\* served for the requested scenario the active graph, at "start" with an
\* empty history; a failed one leaves graph, current node and history as they
\* were.
C2_LoadAllOrNothing ==
  [][LoadEnded =>
       IF last'.error = NoError
       THEN /\ \E i \in 1..Len(pending) :
                 /\ pending[i].op = "loadScenario"
                 /\ pending[i].scenarioId = last'.arg
                 /\ IsSome(currentScenario')
                 /\ Get(currentScenario') \in content[pending[i].file]
            /\ currentNode' = "start"
            /\ choiceHistory' = <<>>
       ELSE UNCHANGED engineVars]_vars

\* C2 witness: a load failed validation while a traversal was under way.
C2_FailedLoadKeepsTraversal ==
  /\ last.op = "loadScenario"
  /\ last.error = ErrInvalid
  /\ IsSome(currentScenario)
  /\ Len(choiceHistory) > 0

\* C3: whenever a graph is active, currentNode is the id of one of its nodes.
C3_CurrentNodeExists ==
  IsSome(currentScenario) => currentNode \in NodeIds(currentScenario)

\* History is a path of the graph from "start" that ends at `node`.
ConsistentPath(scenario, node, history) ==
  LET nodes == Get(Get(scenario).nodes)
      target(i) == IF i < Len(history) THEN history[i + 1].nodeId ELSE node
  IN
  /\ IF Len(history) = 0 THEN node = "start" ELSE history[1].nodeId = "start"
  /\ \A i \in 1..Len(history) :
       /\ history[i].nodeId \in DOMAIN nodes
       /\ IsSome(nodes[history[i].nodeId].choices)
       /\ \E j \in 1..Len(Get(nodes[history[i].nodeId].choices)) :
            /\ Get(nodes[history[i].nodeId].choices)[j].id = history[i].choiceId
            /\ Get(nodes[history[i].nodeId].choices)[j].nextNode = target(i)

\* C4: in every state with an active graph, replaying history from "start"
\* along the graph's choices reproduces currentNode.
C4_HistoryIsConsistentPath ==
  IsSome(currentScenario) =>
    ConsistentPath(currentScenario, currentNode, choiceHistory)

\* The ids of the choices made so far.
ChosenIds(history) == {history[i].choiceId : i \in 1..Len(history)}

\* The elements of an optional array, none when it is absent.
Elements(optionalArray) ==
  IF IsSome(optionalArray)
  THEN {Get(optionalArray)[i] : i \in 1..Len(Get(optionalArray))}
  ELSE {}

\* The gating predicate as the specification states it.
RequirementsMet(choice, history) ==
  \/ ~IsSome(choice.requirements)
  \/ /\ Elements(Get(choice.requirements).previousChoices) \subseteq ChosenIds(history)
     /\ Elements(Get(choice.requirements).forbiddenChoices) \cap ChosenIds(history) = {}

\* C5: getAvailableChoices() is the current node's choices, in the node's
\* order, cut down to those whose requirements are met by the history; it is
\* empty when there is no current node or the node has no choices.
C5_AvailableChoicesAreTheUngated ==
  LET current == getCurrentNode(currentScenario, currentNode)
      expected == IF IsSome(current) /\ IsSome(Get(current).choices)
                  THEN SelectSeq(Get(Get(current).choices),
                                 LAMBDA c : RequirementsMet(c, choiceHistory))
                  ELSE <<>>
  IN getAvailableChoices(currentScenario, currentNode, choiceHistory) = expected

\* C5 witness: back on "start" after A, where C has become available and B
\* is gated out.
C5_GatingDecides ==
  /\ IsSome(currentScenario)
  /\ currentNode = "start"
  /\ "A" \in ChosenIds(choiceHistory)
  /\ LET available == getAvailableChoices(currentScenario, currentNode, choiceHistory)
     IN /\ Len(available) = 2
        /\ available[1].id = "A"
        /\ available[2].id = "C"

\* The ids getAvailableChoices() returns in the state before a step.
AvailableIds ==
  LET available == getAvailableChoices(currentScenario, currentNode, choiceHistory)
  IN {available[i].id : i \in 1..Len(available)}

\* A step in which makeChoice returned normally.
Advanced == last'.op = "makeChoice" /\ last'.error = NoError

\* C6: makeChoice accepts only a choice id that getAvailableChoices()
\* returned; an id of the node that is gated out is rejected.
C6_AdvanceOnlyAvailable ==
  [][Advanced => last'.arg \in AvailableIds]_vars

\* C7: a makeChoice call with an id that is not selectable (no scenario, no
\* choices, unknown or gated out) fails and leaves the current node, the
\* history and the stored data as they were.
C7_FailedAdvanceChangesNothing ==
  [][(last'.op = "makeChoice" /\ last'.arg \notin AvailableIds) =>
       /\ last'.error # NoError
       /\ UNCHANGED <<engineVars, localStorageItem>>]_vars

\* C8: a successful makeChoice appends one entry (the node that was current,
\* the id, text and strategy of the chosen choice), keeps the earlier entries,
\* moves to the choice's nextNode and returns the node now current.
C8_AdvanceAppendsOneEntry ==
  [][Advanced =>
       LET choices == Get(Get(getCurrentNode(currentScenario, currentNode)).choices)
           n == Len(choiceHistory)
       IN
       /\ Len(choiceHistory') = n + 1
       /\ SubSeq(choiceHistory', 1, n) = choiceHistory
       /\ \E j \in 1..Len(choices) :
            /\ choices[j].id = last'.arg
            /\ choiceHistory'[n + 1] =
                 [nodeId |-> currentNode, choiceId |-> last'.arg,
                  choiceText |-> choices[j].text, strategy |-> choices[j].strategy]
            /\ currentNode' = choices[j].nextNode
       /\ currentScenario' = currentScenario
       /\ currentNode' \in NodeIds(currentScenario) =>
            last'.returned = Some(Get(Get(currentScenario).nodes)[currentNode'])]_vars

\* C8 witness: a second choice was made and returned its node.
C8_SecondChoiceMade ==
  /\ last.op = "makeChoice"
  /\ last.error = NoError
  /\ Len(choiceHistory) >= 2
  /\ IsSome(last.returned)

\* A step in which goBack() was called.
WentBack == last'.op = "goBack"

\* C9: goBack() answers "no history" (it returns null without throwing and
\* changes neither the current node, the history nor the stored data) exactly
\* when canGoBack() is false.
C9_GoBackWithoutHistory ==
  [][WentBack =>
       ((/\ last'.error = NoError
         /\ last'.returned = None
         /\ UNCHANGED <<engineVars, localStorageItem>>)
        <=> ~canGoBack(choiceHistory))]_vars

\* C9 witness: goBack() was called on a loaded scenario with an empty history.
C9_WentBackAtStart ==
  /\ last.op = "goBack"
  /\ last.returned = None
  /\ IsSome(currentScenario)
  /\ Len(choiceHistory) = 0

\* C10: goBack() with a non-empty history removes the last entry only, moves
\* to the node that entry was made from, stores the new progress (when the
\* storage takes the write) and returns the node now current.
C10_GoBackPopsLastEntry ==
  [][(WentBack /\ Len(choiceHistory) > 0) =>
       LET n == Len(choiceHistory) IN
       /\ last'.error = NoError
       /\ choiceHistory' = SubSeq(choiceHistory, 1, n - 1)
       /\ currentNode' = choiceHistory[n].nodeId
       /\ currentScenario' = currentScenario
       /\ storageWritable =>
            /\ IsSome(localStorageItem')
            /\ loadData(Store(localStorageItem', defaultState')).data.userProgress =
                 [currentScenario |-> Get(currentScenario).id,
                  currentNode |-> currentNode',
                  choiceHistory |-> choiceHistory']
       /\ currentNode' \in NodeIds(currentScenario) =>
            last'.returned = Some(Get(Get(currentScenario).nodes)[currentNode'])]_vars

\* C10 witness: goBack() undid the second of two choices.
C10_WentBackOneStep ==
  /\ last.op = "goBack"
  /\ IsSome(last.returned)
  /\ Len(choiceHistory) = 1
  /\ IsSome(localStorageItem)
  /\ Get(localStorageItem).userProgress.currentNode = currentNode

\* The node a walk back by repeated goBack() ends on: the node the first
\* choice was made from, or the current node when no choice was made.
StartOfWalk(node, history) ==
  IF Len(history) = 0 THEN node ELSE history[1].nodeId

\* C11: the round trip.  Every goBack() on a non-empty history shortens it by
\* exactly one entry, and in every state reached with an active graph the walk
\* back ends on "start": as many goBack() calls as choices were made lead to
\* "start" with an empty history.
C11_GoBackRoundTrip ==
  [][/\ (WentBack /\ Len(choiceHistory) > 0) =>
          /\ Len(choiceHistory') = Len(choiceHistory) - 1
          /\ currentNode' = choiceHistory[Len(choiceHistory)].nodeId
          /\ Len(choiceHistory') = 0 => currentNode' = "start"
     /\ IsSome(currentScenario') =>
          StartOfWalk(currentNode', choiceHistory') = "start"]_vars

\* C11 witness: after choices were made on a loaded graph, goBack() emptied
\* the history and returned the node "start".
C11_WalkedBackToStart ==
  /\ last.op = "goBack"
  /\ IsSome(last.returned)
  /\ IsSome(currentScenario)
  /\ last.returned = Some(Get(Get(currentScenario).nodes)["start"])
  /\ choiceHistory = <<>>
  /\ currentNode = "start"

\* A step in which restartScenario() was called.
Restarted == last'.op = "restartScenario"

\* The progress a new page would read from the storage.
StoredProgress(item, defaults) == loadData(Store(item, defaults)).data.userProgress

\* C12: restartScenario() never throws; on a loaded scenario it leaves the
\* graph as it is, moves to "start", empties the history and stores that
\* progress (when the storage takes the write).
C12_RestartResets ==
  [][Restarted =>
       /\ last'.error = NoError
       /\ IsSome(currentScenario) =>
            /\ currentScenario' = currentScenario
            /\ currentNode' = "start"
            /\ choiceHistory' = <<>>
            /\ storageWritable =>
                 /\ IsSome(localStorageItem')
                 /\ StoredProgress(localStorageItem', defaultState') =
                      [currentScenario |-> Get(currentScenario).id,
                       currentNode |-> "start",
                       choiceHistory |-> <<>>]]_vars

\* C12 witness: restartScenario() was called after a choice had been made and
\* stored, and the stored progress is the cleared one.
C12_RestartedAfterChoice ==
  /\ last.op = "restartScenario"
  /\ IsSome(currentScenario)
  /\ IsSome(localStorageItem)
  /\ Get(localStorageItem).statistics.strategiesUsed["collaborating"] > 0
  /\ Get(localStorageItem).userProgress.currentNode = "start"
  /\ Get(localStorageItem).userProgress.choiceHistory = <<>>
  /\ choiceHistory = <<>>

\* A step in which makeChoice, goBack or restartScenario made a transition:
\* the call returned normally on a loaded scenario, and goBack had an entry
\* to undo.
Transitioned ==
  /\ IsSome(currentScenario)
  /\ last'.error = NoError
  /\ \/ last'.op = "makeChoice"
     \/ last'.op = "goBack" /\ Len(choiceHistory) > 0
     \/ last'.op = "restartScenario"

\* C13: after every transition the storage has taken, the stored progress is
\* the engine's state (scenario id, current node, history), and loadProgress()
\* on a new page hands exactly that to resumeFromProgress.
C13_StoredProgressIsEngineState ==
  [][(Transitioned /\ storageWritable) =>
       /\ IsSome(localStorageItem')
       /\ loadProgress(Store(localStorageItem', InitialDefaultState)) =
            Some([currentScenario |-> Get(currentScenario').id,
                  currentNode |-> currentNode',
                  choiceHistory |-> choiceHistory'])]_vars

\* The choice of the current node with the id `choiceId`, as makeChoice finds
\* it: None when no scenario is loaded, the node has no choices or none has
\* the id.
FindChoice(choiceId) ==
  LET node == getCurrentNode(currentScenario, currentNode) IN
  IF /\ IsSome(currentScenario)
     /\ Truthy(currentNode)
     /\ IsSome(node)
     /\ IsSome(Get(node).choices)
     /\ FindIndex(Get(Get(node).choices), choiceId) > 0
  THEN Some(Get(Get(node).choices)[FindIndex(Get(Get(node).choices), choiceId)])
  ELSE None

\* C14: a storage that rejects every write blocks no transition.  makeChoice
\* with an id of the current node, goBack() with a history and
\* restartScenario() on a loaded scenario return normally with the node now
\* current, and the engine holds the state after the transition, while
\* nothing is stored.
C14_WriteFailureBlocksNothing ==
  [][~storageWritable =>
       /\ (last'.op = "makeChoice" /\ IsSome(FindChoice(last'.arg))) =>
            /\ last'.error = NoError
            /\ currentNode' = Get(FindChoice(last'.arg)).nextNode
            /\ Len(choiceHistory') = Len(choiceHistory) + 1
            /\ last'.returned = getCurrentNode(currentScenario, currentNode')
       /\ (WentBack /\ Len(choiceHistory) > 0) =>
            /\ last'.error = NoError
            /\ currentNode' = choiceHistory[Len(choiceHistory)].nodeId
            /\ Len(choiceHistory') = Len(choiceHistory) - 1
            /\ last'.returned = getCurrentNode(currentScenario, currentNode')
       /\ (Restarted /\ IsSome(currentScenario)) =>
            /\ last'.error = NoError
            /\ currentNode' = "start"
            /\ choiceHistory' = <<>>
       /\ localStorageItem' = None]_vars

\* C14 witness: with a storage that rejects writes, a second choice was made
\* and returned its node; nothing is stored.
C14_AdvancedWithoutStorage ==
  /\ ~storageWritable
  /\ last.op = "makeChoice"
  /\ last.error = NoError
  /\ IsSome(last.returned)
  /\ Len(choiceHistory) = 2
  /\ localStorageItem = None

\* C15: a snapshot that failed to save is not shown as saved.  With a storage
\* that rejects every write the save-status element never shows SavedText.
C15_FailedSaveNotShownAsSaved ==
  ~storageWritable => saveStatus # SavedText

\* The node `node` is a node of the graph and its type is "resolution".
IsResolution(scenario, node) ==
  /\ node \in NodeIds(scenario)
  /\ Get(Get(scenario).nodes)[node].type = "resolution"

\* C16: in every state reached with an active graph isScenarioComplete() is
\* true exactly when the current node's type is "resolution"; it is true
\* after a makeChoice into a resolution node and false after a goBack() to a
\* node of another type.
C16_CompleteIffResolution ==
  [][/\ IsSome(currentScenario') =>
          (isScenarioComplete(currentScenario', currentNode')
             <=> IsResolution(currentScenario', currentNode'))
     /\ (Advanced /\ IsResolution(currentScenario, currentNode')) =>
          isScenarioComplete(currentScenario', currentNode')
     /\ (/\ WentBack
         /\ Len(choiceHistory) > 0
         /\ ~IsResolution(currentScenario, choiceHistory[Len(choiceHistory)].nodeId)) =>
          ~isScenarioComplete(currentScenario', currentNode')]_vars

\* C16 witness: after a resolution node was reached (the scenario is stored
\* as completed), goBack() returned to a node that is not a resolution.
C16_WentBackFromResolution ==
  /\ last.op = "goBack"
  /\ IsSome(last.returned)
  /\ IsSome(currentScenario)
  /\ ~isScenarioComplete(currentScenario, currentNode)
  /\ IsSome(localStorageItem)
  /\ Includes(Get(localStorageItem).completedScenarios, Get(currentScenario).id)
  /\ Get(localStorageItem).userProgress.currentNode = currentNode

\* C17: a resolution node still permits goBack().  Whenever the current node
\* is a resolution and the history is not empty, a goBack() that undoes the
\* last choice can be taken, and every goBack() taken there returns normally
\* with the engine on the node the last choice was made from.
C17_GoBackFromResolution ==
  [][(/\ IsSome(currentScenario)
      /\ IsResolution(currentScenario, currentNode)
      /\ Len(choiceHistory) > 0) =>
       /\ ENABLED (GoBack /\ Len(choiceHistory') = Len(choiceHistory) - 1)
       /\ WentBack =>
            /\ last'.error = NoError
            /\ currentNode' = choiceHistory[Len(choiceHistory)].nodeId
            /\ choiceHistory' = SubSeq(choiceHistory, 1, Len(choiceHistory) - 1)
            /\ last'.returned = getCurrentNode(currentScenario, currentNode')
            /\ IsSome(last'.returned)]_vars

\* C17 witness: goBack() led from the resolution node y, reached by two
\* choices, back to x.
C17_BackFromEnding ==
  /\ last.op = "goBack"
  /\ IsSome(currentScenario)
  /\ currentNode = "x"
  /\ "x" \in NodeIds(currentScenario)
  /\ last.returned = Some(Get(Get(currentScenario).nodes)["x"])
  /\ Len(choiceHistory) = 1
  /\ IsSome(localStorageItem)
  /\ Includes(Get(localStorageItem).completedScenarios, "scenario-001")

\* A step in which a resumeFromProgress call ended: rejected before its
\* fetch, or settled by the answer to it.
ResumeEnded == last'.op = "resumeFromProgress" /\ last'.error # "pending"

\* C18: resumeFromProgress fails only as its loadScenario fails (the scenario
\* is not in the index, the fetch fails or the document is invalid) and then
\* leaves the engine as it was; when the document loads, it installs the saved
\* node and the saved history as they are, whether or not the graph has them,
\* and returns getCurrentNode().
C18_ResumeInstallsSnapshot ==
  [][ResumeEnded =>
       IF last'.error = NoError
       THEN \E i \in 1..Len(pending) :
              LET request == pending[i] IN
              /\ request.op = "resumeFromProgress"
              /\ request.scenarioId = last'.arg
              /\ IsSome(currentScenario')
              /\ Get(currentScenario') \in content[request.file]
              /\ currentNode' = Get(request.savedProgress).currentNode
              /\ choiceHistory' = Get(request.savedProgress).choiceHistory
              /\ last'.returned = getCurrentNode(currentScenario', currentNode')
       ELSE /\ UNCHANGED engineVars
            /\ \/ /\ last'.error = ErrNotInIndex
                  /\ FindIndex(Get(scenarioIndex'), last'.arg) = 0
               \/ /\ last'.error = ErrFetch
                  /\ \E i \in 1..Len(pending) : pending[i].op = "resumeFromProgress"
               \/ /\ last'.error = ErrInvalid
                  /\ \E i \in 1..Len(pending) :
                       /\ pending[i].op = "resumeFromProgress"
                       /\ \E d \in content[pending[i].file] : ~validateScenario(d)]_vars

\* C18 witness: a resume succeeded with a stale snapshot: the saved node is
\* no node of the graph that was loaded, and the saved history was installed.
C18_ResumedStaleSnapshot ==
  /\ last.op = "resumeFromProgress"
  /\ last.error = NoError
  /\ IsSome(currentScenario)
  /\ currentNode \notin NodeIds(currentScenario)
  /\ Len(choiceHistory) > 0
  /\ last.returned = None

\* The stored form of a current node: JSON has no undefined, the property is
\* left out and reads back as the default null.
StoredNode(node) == IF node = Undefined THEN Null ELSE node

\* The stored progress after markScenarioComplete or clearCurrentProgress.
ClearedProgress ==
  [currentScenario |-> Null, currentNode |-> Null, choiceHistory |-> <<>>]

\* The engine's current node and history together.
Position(node, history) == [currentNode |-> node, choiceHistory |-> history]

\* The position a whole makeChoice, goBack or restartScenario call leads to
\* from the state before the step.
PositionAfter(op, arg) ==
  IF op = "makeChoice"
  THEN LET choice == Get(FindChoice(arg)) IN
       Position(choice.nextNode,
                Append(choiceHistory,
                       [nodeId |-> currentNode, choiceId |-> choice.id,
                        choiceText |-> choice.text, strategy |-> choice.strategy]))
  ELSE IF op = "goBack"
  THEN Position(choiceHistory[Len(choiceHistory)].nodeId,
                SubSeq(choiceHistory, 1, Len(choiceHistory) - 1))
  ELSE Position("start", <<>>)

\* C19: makeChoice, goBack and restartScenario are atomic for their observers,
\* also while loads are in flight.  A step of one of them leaves the engine on
\* the old position or on the whole new one, never with the history of one and
\* the current node of the other; what it stores as progress is the old stored
\* progress, the whole new position or the cleared progress of a finished
\* scenario; and the one write makeChoice makes between pushing the history
\* entry and moving (recordStrategyUsage) leaves the stored progress as it was.
C19_TransitionsAreAtomic ==
  [][(last'.op \in {"makeChoice", "goBack", "restartScenario"}) =>
       LET made == /\ last'.error = NoError
                   /\ IsSome(currentScenario)
                   /\ last'.op = "goBack" => Len(choiceHistory) > 0
           before == StoredProgress(localStorageItem, defaultState)
           after == StoredProgress(localStorageItem', defaultState')
       IN
       /\ currentScenario' = currentScenario
       /\ IF made
          THEN /\ Position(currentNode', choiceHistory') =
                    PositionAfter(last'.op, last'.arg)
               /\ \/ after = before
                  \/ after = ClearedProgress
                  \/ after = [currentScenario |-> Get(currentScenario).id,
                              currentNode |-> StoredNode(currentNode'),
                              choiceHistory |-> choiceHistory']
               /\ (last'.op = "makeChoice"
                     /\ Truthy(Get(FindChoice(last'.arg)).strategy)) =>
                    LET st == recordStrategyUsage(
                                Store(localStorageItem, defaultState),
                                Get(FindChoice(last'.arg)).strategy, storageWritable)
                    IN StoredProgress(st.item, st.defaults) = before
          ELSE /\ UNCHANGED <<currentNode, choiceHistory>>
               /\ after = before]_vars

\* C19 witness: while a load was in flight a choice was made, and the engine
\* and the stored progress both hold the whole new position.
C19_ChoiceMadeDuringLoad ==
  /\ last.op = "makeChoice"
  /\ last.error = NoError
  /\ Len(pending) > 0
  /\ isLoading
  /\ Len(choiceHistory) > 0
  /\ IsSome(localStorageItem)
  /\ Get(localStorageItem).userProgress.choiceHistory = choiceHistory
  /\ StoredProgress(localStorageItem, defaultState).currentNode = currentNode

EraseStrategies(d) ==
  [d EXCEPT !.nodes =
     Some([n \in DOMAIN Get(d.nodes) |->
       [Get(d.nodes)[n] EXCEPT !.choices =
          IF IsSome(@)
          THEN Some([i \in 1..Len(Get(@)) |-> [Get(@)[i] EXCEPT !.strategy = Undefined]])
          ELSE None]])]

\* The active graph without its strategy tags.
ErasedScenario(scenario) ==
  IF IsSome(scenario) THEN Some(EraseStrategies(Get(scenario))) ELSE None

\* The node ids and choice ids of a history.
Path(history) ==
  [i \in 1..Len(history) |-> <<history[i].nodeId, history[i].choiceId>>]

\* The ids of the choices getAvailableChoices() returns for a position.
IdsOf(choices) == [i \in 1..Len(choices) |-> choices[i].id]

Outcome(error, node, path) == [error |-> error, currentNode |-> node, path |-> path]

\* What a navigation call does on a graph, told from the graph's shape, the
\* current node and the path alone.
NavigationOutcome(scenario, node, path, op, arg) ==
  LET data == getCurrentNode(scenario, node) IN
  IF op = "makeChoice"
  THEN IF ~IsSome(scenario) \/ ~Truthy(node)
       THEN Outcome(ErrNoScenario, node, path)
       ELSE IF ~IsSome(data) \/ ~IsSome(Get(data).choices)
       THEN Outcome(ErrNoChoices, node, path)
       ELSE IF FindIndex(Get(Get(data).choices), arg) = 0
       THEN Outcome(ErrChoiceNotFound, node, path)
       ELSE Outcome(NoError,
                    Get(Get(data).choices)[FindIndex(Get(Get(data).choices), arg)].nextNode,
                    Append(path, <<node, arg>>))
  ELSE IF op = "goBack"
  THEN IF Len(path) = 0
       THEN Outcome(NoError, node, path)
       ELSE Outcome(NoError, path[Len(path)][1], SubSeq(path, 1, Len(path) - 1))
  ELSE IF IsSome(scenario)
       THEN Outcome(NoError, "start", <<>>)
       ELSE Outcome(NoError, node, path)

\* C21: strategy tags never influence navigation.  Whether a makeChoice,
\* goBack or restartScenario call fails, the node it leads to and the node and
\* choice ids of the history after it are those told from the graph without
\* its strategy tags; the ids getAvailableChoices() returns are those it
\* returns on the graph without tags; and a document is valid exactly when it
\* is valid without its tags.  Two graphs that differ in tags only therefore
\* answer every sequence of calls alike.
C21_StrategyTagsDoNotNavigate ==
  [][/\ (last'.op \in {"makeChoice", "goBack", "restartScenario"}) =>
          Outcome(last'.error, currentNode', Path(choiceHistory')) =
            NavigationOutcome(ErasedScenario(currentScenario), currentNode,
                              Path(choiceHistory), last'.op, last'.arg)
     /\ IdsOf(getAvailableChoices(currentScenario', currentNode', choiceHistory')) =
          IdsOf(getAvailableChoices(ErasedScenario(currentScenario'), currentNode',
                                    choiceHistory'))
     /\ \A f \in DOMAIN content : \A d \in content[f] :
          IsSome(d.nodes) =>
             (validateScenario(d) <=> validateScenario(EraseStrategies(d)))]_vars

\* C21 witness: a choice tagged with a known strategy was made, its counter
\* was raised, and the engine moved on.
C21_TaggedChoiceMade ==
  /\ last.op = "makeChoice"
  /\ last.error = NoError
  /\ Len(choiceHistory) > 0
  /\ choiceHistory[Len(choiceHistory)].strategy = "competing"
  /\ IsSome(localStorageItem)
  /\ Get(localStorageItem).statistics.strategiesUsed["competing"] = 1

\* C22: goBackToChoice(targetIndex) never throws.  For a target from 0 to the
\* length of the history it ends with that many entries, the first ones, on
\* the node the entry at the target was made from (for the length itself
\* nothing changes); for a target below 0 it ends with an empty history on the
\* node of the first entry.
C22_GoBackToChoiceStopsAtTarget ==
  [][(last'.op = "goBackToChoice") =>
       LET n == Len(choiceHistory)
           target == last'.arg
       IN
       /\ last'.error = NoError
       /\ currentScenario' = currentScenario
       /\ (0 <= target /\ target <= n) =>
            /\ choiceHistory' = SubSeq(choiceHistory, 1, target)
            /\ currentNode' = IF target = n THEN currentNode
                              ELSE choiceHistory[target + 1].nodeId
       /\ (target < 0) =>
            /\ choiceHistory' = <<>>
            /\ currentNode' = IF n = 0 THEN currentNode ELSE choiceHistory[1].nodeId]_vars

\* C22 witness: from a history of three entries goBackToChoice(1) went back
\* two steps to x and the progress stored is that position.
C22_WentBackToFirstChoice ==
  /\ last.op = "goBackToChoice"
  /\ last.arg = 1
  /\ last.returned = Some(2)
  /\ Len(choiceHistory) = 1
  /\ currentNode = "x"
  /\ IsSome(localStorageItem)
  /\ Get(localStorageItem).userProgress.choiceHistory = choiceHistory

\* The data the StorageManager reads back: the stored text merged with the
\* defaults.
StoredData(item, defaults) == loadData(Store(item, defaults)).data

\* A step of makeChoice, goBack or restartScenario.
NavigatorStep == last'.op \in {"makeChoice", "goBack", "restartScenario"}

C25_ProgressValue ==
  [][last'.op = "getProgress" =>
       IF ~IsSome(currentScenario)
       THEN ~IsSome(last'.returned)
       ELSE /\ IsSome(last'.returned)
            /\ LET progress == Get(last'.returned)
                   percent == progress.progressPercent
                   totalNodeCount == Cardinality(NodeIds(currentScenario))
                   reached == 100 * (Len(choiceHistory) + 1)
               IN /\ percent.den > 0
                  /\ IF reached >= 100 * totalNodeCount
                     THEN percent.num = 100 * percent.den
                     ELSE percent.num * totalNodeCount = reached * percent.den
                  /\ percent.num > 0
                  /\ percent.num <= 100 * percent.den
                  /\ progress.choicesMade = Len(choiceHistory)]_vars

\* C25 witness: getProgress() was called with as many history entries as the
\* graph has nodes, so that the value is capped at 100.
C25_ProgressCapped ==
  /\ last.op = "getProgress"
  /\ IsSome(last.returned)
  /\ Len(choiceHistory) = Cardinality(NodeIds(currentScenario))
  /\ Get(last.returned).choicesMade = 3
  /\ Get(last.returned).progressPercent = [num |-> 100, den |-> 1]

\* A step of initialize(): the engine had no index and has one afterwards.
Initialized == ~IsSome(scenarioIndex) /\ IsSome(scenarioIndex')

\* C26: when the index cannot be fetched, initialize() does not fail: the
\* engine's index then lists exactly the one unlocked scenario "scenario-001",
\* and initialize() returns the saved progress, with which the application
\* resumes, or null when there is none.
C26_FallbackIndex ==
  [][Initialized /\ scenarioIndex' # Some(ServerIndex) =>
       LET index == Get(scenarioIndex')
           saved == loadProgress(Store(localStorageItem, defaultState))
       IN
       /\ Len(index) = 1
       /\ index[1].id = "scenario-001"
       /\ index[1].unlocked
       /\ IF IsSome(saved)
          THEN /\ last'.op = "resumeFromProgress"
               /\ last'.arg = Get(saved).currentScenario
               /\ last'.error \in {"pending", ErrNotInIndex}
               /\ last'.error = "pending" =>
                    pending'[Len(pending')].savedProgress = saved
          ELSE last' = Call("initialize", "", NoError, None)]_vars

\* C26 witness: the page was loaded again with progress stored, the index
\* could not be fetched, and the scenario of the stored progress is being
\* resumed against the built-in index.
C26_ResumedOnFallbackIndex ==
  /\ IsSome(scenarioIndex)
  /\ Len(Get(scenarioIndex)) = 1
  /\ last.op = "resumeFromProgress"
  /\ last.error = "pending"
  /\ Len(pending) = 1
  /\ IsSome(pending[1].savedProgress)
  /\ Get(pending[1].savedProgress).currentScenario = "scenario-001"
  /\ Len(Get(pending[1].savedProgress).choiceHistory) = 1

\* A step in which makeChoice arrived at a resolution node.
ArrivedAtResolution ==
  Advanced /\ isScenarioComplete(currentScenario', currentNode')

C28_CompletionCountedOnce ==
  LET data == StoredData(localStorageItem, defaultState)
      completed == data.completedScenarios
  IN /\ \A i, j \in 1..Len(completed) : completed[i] = completed[j] => i = j
     /\ data.statistics.scenariosCompleted = Len(completed)
     /\ IsSome(localStorageItem) =>
          Get(localStorageItem).statistics.scenariosCompleted =
            Len(Get(localStorageItem).completedScenarios)

\* C28 witness: the ending was reached by "B" at the start node, the player
\* went back and reached the ending again by "A" and "A"; the scenario is
\* stored as completed once.
C28_CompletedAgain ==
  /\ last.op = "makeChoice"
  /\ last.error = NoError
  /\ isScenarioComplete(currentScenario, currentNode)
  /\ Len(choiceHistory) = 2
  /\ choiceHistory[1].choiceId = "A"
  /\ IsSome(localStorageItem)
  /\ Get(localStorageItem).statistics.strategiesUsed["competing"] = 1
  /\ Get(localStorageItem).statistics.strategiesUsed["collaborating"] = 1
  /\ Get(localStorageItem).completedScenarios = <<"scenario-001">>
  /\ Get(localStorageItem).statistics.scenariosCompleted = 1

\* C29: a call of makeChoice, goBack, restartScenario, initialize,
\* loadScenario, resumeFromProgress, saveProgress, updatePreferences or
\* clearCurrentProgress removes no id from completedScenarios, and
\* clearCurrentProgress changes nothing but userProgress, which it clears.
\* The operation left out is reset(), which calls clearAllData (and the new
\* page it loads, which starts from the defaults again).
C29_CompletedStaysCompleted ==
  [][last'.op \notin {"reset", "constructor"} =>
       LET before == StoredData(localStorageItem, defaultState)
           after == StoredData(localStorageItem', defaultState')
       IN
       /\ \A i \in 1..Len(before.completedScenarios) :
            Includes(after.completedScenarios, before.completedScenarios[i])
       /\ last'.op = "clearCurrentProgress" =>
            after = [before EXCEPT !.userProgress = ClearedProgress]]_vars

\* C29 witness: after the scenario was completed, the player went back, the
\* view mode was changed and clearCurrentProgress was called: the stored
\* progress of one choice is cleared, the completed scenario, the preference
\* and the statistics are still there.
C29_ClearedProgressKeptCompleted ==
  /\ last.op = "clearCurrentProgress"
  /\ Len(choiceHistory) = 1
  /\ IsSome(localStorageItem)
  /\ Get(localStorageItem).userProgress.currentScenario = Null
  /\ Get(localStorageItem).completedScenarios = <<"scenario-001">>
  /\ Get(localStorageItem).userPreferences.viewMode = "text-adventure"
  /\ Get(localStorageItem).statistics.totalChoicesMade = 1
  /\ Get(localStorageItem).statistics.scenariosCompleted = 1

\* C30: statistics.totalChoicesMade never decreases, whatever makeChoice,
\* goBack, restartScenario and the loading of scenarios do.
C30_TotalChoicesNeverDecrease ==
  [][last'.op \in {"makeChoice", "goBack", "restartScenario", "initialize",
                   "loadScenario", "resumeFromProgress"} =>
       StoredData(localStorageItem', defaultState').statistics.totalChoicesMade >=
         StoredData(localStorageItem, defaultState).statistics.totalChoicesMade]_vars

\* C31: whenever nothing is stored under the storage key, loadData() returns
\* the default state as the constructor built it: no current progress, no
\* completed scenarios, totalChoicesMade = 0, scenariosCompleted = 0 and
\* every strategy counter 0, whatever ran earlier on the page.
C31_NothingStoredReadsDefaults ==
  ~IsSome(localStorageItem) =>
     LET data == loadData(Store(localStorageItem, defaultState)).data
     IN /\ loadProgress(Store(localStorageItem, defaultState)) = None
        /\ data.completedScenarios = <<>>
        /\ data.statistics.totalChoicesMade = 0
        /\ data.statistics.scenariosCompleted = 0
        /\ \A s \in KnownStrategies : data.statistics.strategiesUsed[s] = 0

\* C32: getAvailableScenarios() returns the empty list while no index is
\* loaded; otherwise it returns entries of the index, each unlocked or with
\* its id in completedScenarios, every such entry of the index is among them,
\* and they come in the order of the index.  A locked scenario that was
\* completed is therefore listed.
C32_AvailableScenarios ==
  [][last'.op = "getAvailableScenarios" =>
       LET result == Get(last'.returned)
           completed == StoredData(localStorageItem, defaultState).completedScenarios
           Listed(entry) == entry.unlocked \/ Includes(completed, entry.id)
       IN
       IF ~IsSome(scenarioIndex)
       THEN result = <<>>
       ELSE LET index == Get(scenarioIndex) IN
            /\ \A i \in 1..Len(result) :
                 /\ FindIndex(index, result[i].id) > 0
                 /\ result[i] = index[FindIndex(index, result[i].id)]
                 /\ Listed(result[i])
            /\ \A k \in 1..Len(index) :
                 Listed(index[k]) => \E i \in 1..Len(result) : result[i] = index[k]
            /\ \A i, j \in 1..Len(result) :
                 i < j => FindIndex(index, result[i].id) < FindIndex(index, result[j].id)]_vars

\* C32 witness: the locked scenario "scenario-001" was completed and
\* getAvailableScenarios() lists it before the unlocked "scenario-002".
C32_CompletedLockedScenarioListed ==
  /\ last.op = "getAvailableScenarios"
  /\ scenarioIndex = Some(LockedIndex)
  /\ IsSome(localStorageItem)
  /\ Get(localStorageItem).completedScenarios = <<"scenario-001">>
  /\ Get(last.returned) = LockedIndex

LoadSettled ==
  /\ last'.op \in {"loadScenario", "resumeFromProgress"}
  /\ Len(pending') < Len(pending)

\* C34: whatever the order in which the fetches of a resume and of a load
\* started by the user are answered, each answer that loads leaves the engine
\* with the graph of its own request and either the saved node and history
\* (the resume) or "start" and an empty history (the load): the saved node
\* and history are never put on the graph of the other request.
C34_OverlapEndsConsistent ==
  [][LoadSettled /\ last'.error = NoError =>
       \E i \in 1..Len(pending) :
         LET request == pending[i] IN
         /\ pending' = RemoveAt(pending, i)
         /\ request.op = last'.op
         /\ IsSome(currentScenario')
         /\ Get(currentScenario') \in content[request.file]
         /\ IF request.op = "resumeFromProgress"
            THEN /\ currentNode' = Get(request.savedProgress).currentNode
                 /\ choiceHistory' = SavedHistory(Get(request.savedProgress))
            ELSE /\ currentNode' = "start"
                 /\ choiceHistory' = <<>>]_vars

\* C34 witness: while the progress of "scenario-001" was being resumed the
\* user went to the menu and started "scenario-002"; its fetch was answered
\* first, the resume last, and the engine has the resumed graph with the
\* saved node and history.
C34_ResumeSettledAfterLoad ==
  /\ last.op = "resumeFromProgress"
  /\ last.error = NoError
  /\ pending = <<>>
  /\ app.started = Some("scenario-002")
  /\ Get(currentScenario).id = "scenario-001"
  /\ currentNode = "x"
  /\ Len(choiceHistory) = 1

\* C35: when two loads started by the user overlap, the scenario started last
\* is the active one once both fetches are answered: an answer for the
\* scenario started last installs it, and an answer for the scenario started
\* before, coming after the last one was installed, does not replace it.
C35_LastStartedWins ==
  [][( /\ LoadSettled
       /\ last'.op = "loadScenario"
       /\ last'.error = NoError
       /\ pending' = <<>>
       /\ IsSome(app.started) ) =>
       LET request == pending[1] IN
       IF request.scenarioId = Get(app.started)
       THEN Get(currentScenario') \in content[request.file]
       ELSE ( /\ last = Call("loadScenario", Get(app.started), NoError, None)
              /\ IsSome(currentScenario) )
            => currentScenario' = currentScenario]_vars

\* A step of a key: a makeChoice or goBack that a key set off, or a key that
\* did nothing.  (Clicks on choice buttons are made with the scenario shown.)
KeyStep == last'.op \in {"makeChoice", "goBack", "keydown"}

\* C36: while the welcome screen or the error screen is shown and the
\* scenario display is not, a number key or Backspace changes neither the
\* current node nor the history nor the stored progress.
C36_KeysOnlyOnScenarioScreen ==
  [][( /\ KeyStep
       /\ last'.arg # "Escape"
       /\ "scenario" \notin app.visible
       /\ app.visible \cap {"welcome", "error"} # {} ) =>
       /\ UNCHANGED <<currentNode, choiceHistory>>
       /\ StoredProgress(localStorageItem', defaultState') =
            StoredProgress(localStorageItem, defaultState)]_vars

\* The application's start came to its end: initialized, or on the error
\* screen with isInitialized false.
StartEnded ==
  \/ app.isInitialized
  \/ /\ app.waitForComponents = "rejected"
     /\ "error" \in app.visible
     /\ ~app.isInitialized

\* C37: waitForComponents resolves at the first run of checkComponents that
\* finds the three components and at no other; while it waits, fewer than 50
\* runs (maxWaitTime / checkInterval) have failed, and it rejects at the 50th
\* with the time out; it settles in every run of the application, and the
\* start of the application then ends initialized or on the error screen
\* with isInitialized false.
C37_WaitForComponentsSettles ==
  /\ [][last'.op = "checkComponents" =>
          /\ app.waitForComponents = "pending"
          /\ (app'.waitForComponents = "resolved") = Get(last'.returned)
          /\ (app'.waitForComponents = "rejected") =
               (~Get(last'.returned) /\ app.elapsed = maxWaitTime - checkInterval)]_vars
  /\ [](/\ app.elapsed % checkInterval = 0
        /\ app.elapsed <= maxWaitTime
        /\ app.waitForComponents = "pending" => app.elapsed < maxWaitTime
        /\ app.waitForComponents = "rejected" =>
             /\ app.elapsed = maxWaitTime
             /\ ~app.isInitialized
             /\ "error" \in app.visible
        /\ app.isInitialized => app.waitForComponents = "resolved")
  /\ <>(app.waitForComponents # "pending")
  /\ <>StartEnded

\* C37 witness: the components never came, the 50th run of checkComponents
\* rejected, and the application stands on the error screen, not initialized.
C37_TimedOut ==
  /\ last.op = "checkComponents"
  /\ app.waitForComponents = "rejected"
  /\ app.elapsed = 50 * checkInterval
  /\ app.visible = {"error"}
  /\ ~app.isInitialized


\* C38: importData(exportData()) leaves the data the StorageManager reads back
\* (progress, completed scenarios, preferences, statistics) as it was and,
\* where the browser lets the page write, returns true; merging the data
\* loadData returns with the defaults once more changes nothing; importData of
\* a text that is not JSON returns false and leaves the stored text and the
\* data read back as they were.
C38_ExportImportRoundTrip ==
  [][last'.op = "importData" =>
       LET before == StoredData(localStorageItem, defaultState)
           after == StoredData(localStorageItem', defaultState')
       IN /\ after = before
          /\ mergeWithDefaults(before, defaultState) = before
          /\ mergeWithDefaults(after, defaultState') = after
          /\ last'.arg = "exported" =>
               /\ storageWritable => last'.returned = Some(TRUE)
               /\ storageWritable => IsSome(localStorageItem')
          /\ last'.arg = "invalid" =>
               /\ last'.returned = Some(FALSE)
               /\ localStorageItem' = localStorageItem]_vars

\* An exported backup that holds a choice, a completed scenario and a counted
\* strategy has been imported again and importData returned true.
C38_ImportedOwnExport ==
  /\ last.op = "importData"
  /\ last.arg = "exported"
  /\ last.returned = Some(TRUE)
  /\ IsSome(localStorageItem)
  /\ LET data == StoredData(localStorageItem, defaultState)
     IN /\ Len(data.completedScenarios) > 0
        /\ data.statistics.totalChoicesMade > 0

\* C38 as stated: importData(exportData()) returns true whatever the browser
\* does with the write, and leaves the data read back as it was.
C38_RoundTripAlwaysSucceeds ==
  [][(last'.op = "importData" /\ last'.arg = "exported") =>
       /\ last'.returned = Some(TRUE)
       /\ StoredData(localStorageItem', defaultState')
            = StoredData(localStorageItem, defaultState)]_vars

====
